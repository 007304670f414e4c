---------------------------- MODULE ReplayBridge ----------------------------
(***************************************************************************)
(* The game page's side of the replay import: the bridge that sends the    *)
(* /replay requests with the game's own credentials, and the content       *)
(* script that relays them.  A handler takes the page's state and returns  *)
(* the state after it together with what it posts to the service worker.   *)
(* Window messages between the two scripts of the page are delivered at    *)
(* once; a generation that is compared with the one of a queued request is *)
(* a mark on the request.                                                  *)
(***************************************************************************)
EXTENDS Naturals, Sequences, SequencesExt

NoHttp == [live |-> FALSE]

\* activity: what the page's socket says; auth: the envelope was captured and announced;
\* held: fetches the content script keeps back; queue, http: what waits and what is sent.
NewPage(on) ==
  [activity |-> "unknown", enabled |-> on, auth |-> FALSE, held |-> <<>>,
   queue |-> <<>>, epoch |-> 0, http |-> NoHttp]

isPageOutsideSession(p) == p.activity = "inactive"

Quiet(p) == [page |-> p, posts |-> <<>>]
Result(req, outcome) ==
  [type |-> "result", id |-> req.id, epoch |-> req.epoch, hand |-> req.hand, outcome |-> outcome]
postVerificationResult(p, req, outcome) == [page |-> p, posts |-> <<Result(req, outcome)>>]
postEmptyReplayResult(p, req) == postVerificationResult(p, req, "empty")

cancelAllReplayRequests(p) ==
  IF p.http.live THEN [p EXCEPT !.http.aborted = TRUE] ELSE p

\* A new cancel generation: whatever was queued or sent before is void.
CancelGeneration(p) ==
  LET q == [p EXCEPT !.queue = [i \in DOMAIN @ |-> [@[i] EXCEPT !.stale = TRUE]]]
  IN cancelAllReplayRequests(IF q.http.live THEN [q EXCEPT !.http.req.stale = TRUE] ELSE q)

setReplayPageSessionActivityQuietly(p, activity) == [p EXCEPT !.activity = activity]  \* mutant
setReplayPageSessionActivity(p, activity) ==
  LET q == [p EXCEPT !.activity = activity]
  IN IF isPageOutsideSession(q) THEN q ELSE CancelGeneration(q)

postReplayCancel(p) == CancelGeneration([p EXCEPT !.held = <<>>])

adoptServiceWorkerEpoch(p, epoch) ==
  IF p.epoch = epoch THEN p ELSE [cancelAllReplayRequests(p) EXCEPT !.epoch = epoch]

Enqueue(p, req) ==
  LET q == adoptServiceWorkerEpoch(p, req.epoch)
  IN Quiet([q EXCEPT !.queue = Append(@, req)])

\* A request of the worker reaches the bridge.
BridgeFetch(p, req) ==
  IF isPageOutsideSession(p) THEN Enqueue(p, req)
  ELSE postEmptyReplayResult(cancelAllReplayRequests(p), req)

BridgeVerify(p, req) ==
  IF isPageOutsideSession(p) THEN Enqueue(p, req)
  ELSE postVerificationResult(cancelAllReplayRequests(p), req, "in-session")

\* A message of the worker's port reaches the content script.
onMessage(p, msg) ==
  CASE msg.kind = "cancel" -> Quiet(postReplayCancel(p))
    [] msg.kind = "detail" ->
         IF p.enabled THEN BridgeFetch(p, msg) ELSE Quiet([p EXCEPT !.held = Append(@, msg)])
    [] OTHER -> IF p.enabled THEN BridgeVerify(p, msg) ELSE postVerificationResult(p, msg, "error")

\* What was held back reaches the bridge, in the order it came.
BridgeFetchAll(p, reqs) ==
  IF isPageOutsideSession(p)
  THEN LET known == \A req \in ToSet(reqs) : req.epoch = p.epoch
           q == IF known THEN p ELSE cancelAllReplayRequests(p)
       IN Quiet([q EXCEPT !.epoch = Last(reqs).epoch, !.queue = @ \o reqs])
  ELSE [page |-> cancelAllReplayRequests(p),
        posts |-> [i \in DOMAIN reqs |-> Result(reqs[i], "empty")]]

\* The setting changed: the envelope is dropped with the permission to use it,
\* and what was held back is sent or forgotten.
RefreshConfig(p, on) ==
  LET q == [p EXCEPT !.enabled = on, !.auth = on /\ @, !.held = <<>>]
  IN CASE on /\ p.held # <<>> -> BridgeFetchAll(q, p.held)
       [] ~on /\ p.http.live -> Quiet([q EXCEPT !.http.oldAuth = TRUE])
       [] OTHER -> Quiet(q)

\* The game calls its API and the envelope is seen; the first one is announced.
AuthCaptured == <<[type |-> "auth"]>>
announceAuthCaptured(p) ==
  [page |-> [p EXCEPT !.auth = TRUE], posts |-> IF p.auth THEN <<>> ELSE AuthCaptured]

Send(p, req) ==
  Quiet([p EXCEPT !.http = [live |-> TRUE, req |-> req, aborted |-> FALSE, oldAuth |-> FALSE]])

verifyReplayAccess(p, req) ==
  CASE p.epoch # req.epoch \/ req.stale \/ ~p.enabled -> Quiet(p)
    [] ~isPageOutsideSession(p) -> postVerificationResult(p, req, "in-session")
    [] ~p.auth -> postVerificationResult(p, req, "no-auth")
    [] OTHER -> Send(p, req)

handleReplayFetch(p, req) ==
  CASE p.epoch # req.epoch -> Quiet(p)
    [] req.stale \/ ~isPageOutsideSession(p) \/ ~p.enabled -> postEmptyReplayResult(p, req)
    [] ~p.auth -> postVerificationResult(p, req, "retry")
    [] OTHER -> Send(p, req)

\* The next request of the page's own queue, one at a time.
replayFetchQueue(p) ==
  LET q == [p EXCEPT !.queue = Tail(@)]
      req == Head(p.queue)
  IN IF req.kind = "verify" THEN verifyReplayAccess(q, req) ELSE handleReplayFetch(q, req)

\* The request that was sent ends: with the server's answer, or aborted.
VerifyAnswered(p, answer) ==
  LET req == p.http.req
      q == [p EXCEPT !.http = NoHttp]
      void == p.epoch # req.epoch \/ req.stale \/ ~p.enabled
  IN CASE p.http.aborted /\ void -> Quiet(q)
       [] p.http.aborted -> postVerificationResult(q, req, IF isPageOutsideSession(q) THEN "error" ELSE "in-session")
       [] answer = "retry" \/ p.http.oldAuth -> postVerificationResult(q, req, "error")
       [] void -> Quiet(q)
       [] ~isPageOutsideSession(q) -> postVerificationResult(q, req, "in-session")
       [] OTHER -> postVerificationResult(q, req, answer)

fetchReplayDetail(p, answer) ==
  LET req == p.http.req
      q == [p EXCEPT !.http = NoHttp]
  IN CASE p.epoch # req.epoch -> Quiet(q)
       [] req.stale \/ ~isPageOutsideSession(q) -> postEmptyReplayResult(q, req)
       [] p.http.aborted -> postVerificationResult(q, req, "retry")
       [] OTHER -> postVerificationResult(q, req, answer)

Answered(p, answer) ==
  IF p.http.req.kind = "verify" THEN VerifyAnswered(p, answer) ELSE fetchReplayDetail(p, answer)
=============================================================================
