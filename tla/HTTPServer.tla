------------------------------ MODULE HTTPServer ------------------------------
(***************************************************************************)
(* The web server with the requests it serves.  Every request runs in a    *)
(* goroutine of its own through                                            *)
(*   RequestID -> RequestBodyLimit -> AccessObservation -> Recovery ->     *)
(* its handler and back, while callers start and close the server, the     *)
(* application announces and withdraws readiness, and clients go away.     *)
(* net/http is outside: its Shutdown waits for requests in flight until    *)
(* its context is done, and its Close then drops their connections,        *)
(* without waiting for the handlers.                                       *)
(***************************************************************************)
EXTENDS WebServer, WebAPI

CONSTANTS
  Requests,  \* requests that may arrive
  Queries,   \* parameters of listings, each with the number of items there are
  NoReply    \* nothing has been written for a request

ASSUME RequestsAssumption == IsFiniteSet(Requests)
ASSUME QueriesAssumption ==
  \A query \in Queries :
    /\ query.page \in Seq(Seq(0..NoDigit)) /\ query.size \in Seq(Seq(0..NoDigit))
    /\ query.total \in 0..MaxInt

VARIABLES
  stage,   \* where each request is
  reply,   \* what was written first for it: an envelope or a bare status
  cut,     \* requests in flight whose connections Close has dropped
  ready,   \* the Observer's readiness
  counts   \* the Observer's number of requests by status

http == <<stage, reply, cut, ready, counts>>

(* The handlers of the server itself.                                      *)
Health   == IF ready THEN Success(200, "ok", TRUE) ELSE Error(503, "not_ready", TRUE, <<>>)
Info     == Success(200, "ok", TRUE)
NoRoute  == Error(404, "not_found", TRUE, <<>>)
NoMethod == Error(405, "method_not_allowed", TRUE, <<>>)

(* What handlers of other packages may write: an envelope of the package   *)
(* api, from arguments that are right or not, a page of a listing, or a    *)
(* bare status.                                                            *)
Listing(query) ==
  LET parsed == ParsePagination(query)
  IN  IF parsed.rule # "none"
        THEN Error(400, "invalid_argument", TRUE, <<"field", parsed.rule>>)
        ELSE Page(200, "ok", TRUE, parsed.page, parsed.size, query.total)

OtherReplies ==
  {Success(201, "created", TRUE), Success(200, "created", TRUE), Success(200, "ok", FALSE),
   Error(413, "payload_too_large", TRUE, <<>>),
   Error(400, "invalid_argument", TRUE, <<"field", "secret">>),
   Page(200, "ok", TRUE, 1, MaxPageSize + 1, 1),
   Envelope(204, "bare")}
  \cup {Listing(query) : query \in Queries}

Statuses == {200, 201, 204, 400, 404, 405, 413, 500, 503}

(* All that is ever written, also by Recovery.                             *)
Replies ==
  OtherReplies \cup {Info, NoRoute, NoMethod, InternalFallback, Error(503, "not_ready", TRUE, <<>>)}

ASSUME NoReplyAssumption == NoReply \notin Replies

InFlight(r) == stage[r] \notin {"none", "done"}

HTTPTypeOK ==
  /\ TypeOK
  /\ stage \in [Requests -> {"none", "correlate", "handle", "recover", "observe", "flush", "done"}]
  /\ reply \in [Requests -> Replies \cup {NoReply}]
  /\ cut \subseteq Requests
  /\ ready \in BOOLEAN
  /\ counts \in [Statuses -> Nat]

HTTPInit ==
  /\ Init
  /\ stage = [r \in Requests |-> "none"]
  /\ reply = [r \in Requests |-> NoReply]
  /\ cut = {}
  /\ ready = FALSE
  /\ counts = [code \in Statuses |-> 0]

-----------------------------------------------------------------------------
(* A request.                                                              *)

Reach(r, next) == stage' = [stage EXCEPT ![r] = next]

(* Serve accepts a connection and reads a request; not after Shutdown.     *)
Arrive(r) ==
  /\ stage[r] = "none"
  /\ serving # {} /\ ~stopped
  /\ Reach(r, "correlate")
  /\ UNCHANGED <<vars, reply, cut, ready, counts>>

(* RequestID keeps the client's identifier or generates one; the body is   *)
(* limited.  Without entropy for an identifier the goroutine panics        *)
(* outside of Recovery, and net/http ends the request.                     *)
Correlate(r) ==
  /\ stage[r] = "correlate"
  /\ Reach(r, "handle") \/ Reach(r, "done")
  /\ UNCHANGED <<vars, reply, cut, ready, counts>>

(* Nothing is written once something was.                                  *)
Write(r, envelope) == reply' = [reply EXCEPT ![r] = IF @ = NoReply THEN envelope ELSE @]

(* One of the server's own handlers.                                       *)
Handle(r) ==
  /\ stage[r] = "handle"
  /\ reply[r] = NoReply
  /\ \E envelope \in {Health, Info, NoRoute, NoMethod} : Write(r, envelope)
  /\ Reach(r, "observe")
  /\ UNCHANGED <<vars, cut, ready, counts>>

(* Another handler writes, any number of times, and may go on for ever,    *)
(* return or panic.                                                        *)
HandleOther(r) ==
  /\ stage[r] = "handle"
  /\ \E envelope \in OtherReplies : Write(r, envelope)
  /\ UNCHANGED <<vars, stage, cut, ready, counts>>

Return(r) ==
  /\ stage[r] = "handle"
  /\ reply[r] # NoReply
  /\ Reach(r, "observe")
  /\ UNCHANGED <<vars, reply, cut, ready, counts>>

Panic(r) ==
  /\ stage[r] = "handle"
  /\ Reach(r, "recover")
  /\ UNCHANGED <<vars, reply, cut, ready, counts>>

(* Mutant: the panic passes through AccessObservation before it is caught. *)
RecoverOutside(r) ==
  /\ stage[r] = "recover"
  /\ Write(r, Error(500, "internal", TRUE, <<>>))
  /\ Reach(r, "flush")
  /\ UNCHANGED <<vars, cut, ready, counts>>

(* Recovery: the internal error, unless the response has begun.            *)
Recover(r) ==
  /\ stage[r] = "recover"
  /\ Write(r, Error(500, "internal", TRUE, <<>>))
  /\ Reach(r, "observe")
  /\ UNCHANGED <<vars, cut, ready, counts>>

(* The rest of AccessObservation, after everything that may write.         *)
Observe(r) ==
  /\ stage[r] = "observe"
  /\ counts' = [counts EXCEPT ![reply[r].status] = @ + 1]
  /\ Reach(r, "flush")
  /\ UNCHANGED <<vars, reply, cut, ready>>

(* net/http sends the response, if its client can still be reached.        *)
Flush(r) ==
  /\ stage[r] = "flush"
  /\ Reach(r, "done")
  /\ UNCHANGED <<vars, reply, cut, ready, counts>>

RequestStep(r) ==
  \/ Arrive(r) \/ Correlate(r) \/ Handle(r) \/ HandleOther(r) \/ Return(r)
  \/ Panic(r) \/ Recover(r) \/ Observe(r) \/ Flush(r)

-----------------------------------------------------------------------------
(* The application and the callers of the server.                          *)

SetReady ==
  /\ ready' = ~ready
  /\ UNCHANGED <<vars, stage, reply, cut, counts>>

(* Mutant: connections are not waited for.                                 *)
DrainIdleOnly(k) ==
  /\ Drained(k)
  /\ UNCHANGED http

(* Shutdown returns when no request is in flight, or with the error of its *)
(* context; then Close drops the connections and reports that error.       *)
Drain(k) ==
  /\ Drained(k)
  /\ \/ (\A r \in Requests : ~InFlight(r)) /\ UNCHANGED cut
     \/ cut' = {r \in Requests : InFlight(r)}
  /\ UNCHANGED <<stage, reply, ready, counts>>

ServerStep ==
  /\ \/ \E s \in Starters : StartStep(s) \/ ServeEnds(s)
     \/ \E k \in Closers : CloseStep(k)
  /\ UNCHANGED http

HTTPNext ==
  \/ ServerStep \/ SetReady
  \/ \E k \in Closers : Drain(k)
  \/ \E r \in Requests : RequestStep(r)

(* The fairness of the server alone: a handler may never end, and nobody   *)
(* has to send a request.                                                  *)
HTTPSpec == HTTPInit /\ [][HTTPNext]_<<vars, http>> /\ Fairness

-----------------------------------------------------------------------------
(* Properties.                                                             *)

(* What the digits of a number say.                                        *)
Value(digits) ==
  LET value[n \in 0..Len(digits)] == IF n = 0 THEN 0 ELSE 10 * value[n - 1] + digits[n]
  IN  value[Len(digits)]

(* Every request that was answered is counted once, under the status its   *)
(* client sees, whether its handler returned, wrote more than once, or     *)
(* panicked before or after it wrote; no other request is counted.         *)
(* (AccessObservation around Recovery; foundation design, "final panic     *)
(* status observation".)                                                   *)
EveryReplyIsCounted ==
  \A code \in Statuses :
    counts[code] = Cardinality({r \in Requests :
      stage[r] \in {"flush", "done"} /\ reply[r] # NoReply /\ reply[r].status = code})

(* When Close has returned, the only requests still running are those whose*)
(* connections it dropped because its context was done: also when Serve    *)
(* had failed before, or another goroutine closed the server.              *)
(* (httpServer.Shutdown before httpServer.Close.)                          *)
CloseLeavesNoRequest ==
  once = Done => \A r \in Requests : InFlight(r) => r \in cut

(* A page that is served is one that was asked for, whatever the number of *)
(* digits; its listing's pages hold all of the items, and the last one is  *)
(* not empty, up to the largest total.  (The guard of parsePaginationValue *)
(* before the multiplication, totalPages.)                                 *)
PagesAreExact ==
  \A r \in Requests :
    reply[r] # NoReply /\ reply[r].data # <<>> =>
      LET page == reply[r].data[1]   size == reply[r].data[2]
          total == reply[r].data[3]  pages == reply[r].data[4]
      IN  /\ \E query \in Queries :
               query.total = total
               /\ page = IF query.page = <<>> THEN 1 ELSE Value(query.page[1])
          /\ pages * size >= total
          /\ (pages - 1) * size < total
=============================================================================
