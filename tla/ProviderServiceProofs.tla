------------------------ MODULE ProviderServiceProofs ------------------------
(* Theorems about ResponseStream and ProviderService: for any goroutines    *)
(* that hold the stream, any number of chunks, of calls of Chat, and of     *)
(* tools, and any number of editions of their metadata.                     *)
EXTENDS ProviderService, TLAPS

USE ConsumerAssumption, NoCallerAssumption, MaxChunksAssumption, StreamAssumption,
    ToolsAssumption, MaxEditionAssumption

-----------------------------------------------------------------------------
(* The stream.                                                              *)

(* The mutex is held by whoever waits for the reader or for the recorder,   *)
(* and by nobody else.                                                      *)
HoldersWork == \A p \in Callers : pc[p] \in {"receiving", "record"} <=> mu = p

UnopenedIsQuiet ==
  opening # "open" =>
    mu = NoCaller /\ ~terminal /\ ~callerClosed /\ \A p \in Callers : pc[p] = "ready"

StagesOfStream ==
  \A p \in Callers :
    /\ pc[p] = "receiving" => ~terminal /\ ~callerClosed
    /\ pc[p] = "record" => terminal \/ callerClosed

(* How far the call has come: nothing is known of it, it has an outcome and *)
(* no row, or both are settled.                                             *)
Fresh   == outcome = "none" /\ row = "none" /\ answer = "none" /\ audits = 0
Pending == outcome \in {"ok", "error"} /\ row = "none" /\ answer = "none" /\ audits = 0
Settled == outcome \in {"ok", "error"} /\ row # "none" /\ audits = 1

Recording == \E p \in Callers : pc[p] = "record"

(* The flags that Recv and Close look at say how far the call has come.     *)
Ledger ==
  /\ opening = "calling" => Fresh
  /\ opening = "failing" => Pending
  /\ opening = "open" =>
       /\ Recording => Pending
       /\ ~Recording /\ (terminal \/ callerClosed) => Settled
       /\ ~Recording /\ ~terminal /\ ~callerClosed => Fresh

StreamInv == TypeOK /\ HoldersWork /\ UnopenedIsQuiet /\ StagesOfStream /\ Ledger

(* The stream's invariant holds initially.                                  *)
LEMMA InitStreamInv == Init => StreamInv
<1>. SUFFICES ASSUME Init PROVE StreamInv
  OBVIOUS
<1>. USE DEF Init
<1>1. terminal \in BOOLEAN /\ callerClosed \in BOOLEAN /\ cancelled \in BOOLEAN
  BY Zenon
<1>2. TypeOK
  BY <1>1 DEF TypeOK, Events
<1>3. HoldersWork /\ UnopenedIsQuiet /\ StagesOfStream /\ Ledger
  BY DEF HoldersWork, UnopenedIsQuiet, StagesOfStream, Ledger, Fresh
<1>. QED
  BY <1>2, <1>3 DEF StreamInv

(* The steps of ChatStream keep the invariant.                              *)
LEMMA OpenKeeps ==
  ASSUME StreamInv, Open
  PROVE  StreamInv'
<1>. USE DEF StreamInv, Open, PrepareFails, StreamFails, RecordStreamFailure, StreamOpens,
             RecordOutcome, stream, call
<1>1. TypeOK'
  BY DEF TypeOK, Ledger, Pending
<1>2. HoldersWork' /\ UnopenedIsQuiet' /\ StagesOfStream'
  BY DEF HoldersWork, UnopenedIsQuiet, StagesOfStream
<1>3. Ledger'
  BY DEF Ledger, Fresh, Pending, Recording, UnopenedIsQuiet
<1>. QED
  BY <1>1, <1>2, <1>3

(* A goroutine calls, or takes the mutex and returns at once.               *)
LEMMA CallKeeps ==
  ASSUME StreamInv, NEW p \in Callers,
         CallRecv(p) \/ CallClose(p) \/ RecvAfterClose(p) \/ RecvAfterEnd(p) \/ CloseAgain(p)
           \/ CloseAfterEnd(p)
  PROVE  StreamInv'
<1>. USE DEF StreamInv, CallRecv, CallClose, RecvAfterClose, RecvAfterEnd, CloseAgain,
             CloseAfterEnd, Acquires, Goto, stream, call
<1>1. callerClosed' \in BOOLEAN
  BY Zenon DEF TypeOK
<1>2. TypeOK'
  BY <1>1 DEF TypeOK, Events
<1>3. opening = "open" /\ UNCHANGED <<opening, mu, terminal, call>>
  OBVIOUS
<1>4. /\ pc[p] \notin {"receiving", "record"} /\ pc'[p] \notin {"receiving", "record"}
      /\ \A q \in Callers \ {p} : pc'[q] = pc[q]
  BY DEF TypeOK
<1>5. HoldersWork' /\ UnopenedIsQuiet'
  BY <1>3, <1>4 DEF HoldersWork, UnopenedIsQuiet
<1>6. UNCHANGED callerClosed \/ (terminal /\ callerClosed' /\ mu = NoCaller)
  OBVIOUS
<1>7. StagesOfStream'
  BY <1>3, <1>4, <1>6 DEF StagesOfStream, HoldersWork
<1>8. Recording' <=> Recording
  BY <1>4 DEF Recording
<1>9. Ledger'
  BY <1>3, <1>6, <1>8 DEF Ledger, Fresh, Pending, Settled
<1>. QED
  BY <1>2, <1>5, <1>7, <1>9

(* Recv asks the reader with the mutex held.                                *)
LEMMA AskKeeps ==
  ASSUME StreamInv, NEW p \in Callers, AskReader(p)
  PROVE  StreamInv'
<1>. USE DEF StreamInv, AskReader, Acquires, Goto, call
<1>1. TypeOK'
  BY DEF TypeOK
<1>2. HoldersWork' /\ UnopenedIsQuiet' /\ StagesOfStream'
  BY DEF TypeOK, HoldersWork, UnopenedIsQuiet, StagesOfStream
<1>3. ~Recording /\ ~Recording'
  BY DEF TypeOK, HoldersWork, Recording
<1>4. Ledger'
  BY <1>3 DEF Ledger, Fresh
<1>. QED
  BY <1>1, <1>2, <1>4

(* A chunk arrives, and the mutex is free again.                            *)
LEMMA DeliverKeeps ==
  ASSUME StreamInv, NEW p \in Callers, ReaderDelivers(p)
  PROVE  StreamInv'
<1>. USE DEF StreamInv, ReaderDelivers, Goto, call
<1>1. mu = p /\ opening = "open"
  BY DEF HoldersWork, UnopenedIsQuiet
<1>2. TypeOK'
  BY DEF TypeOK, Events
<1>3. HoldersWork' /\ UnopenedIsQuiet' /\ StagesOfStream'
  BY <1>1 DEF TypeOK, HoldersWork, UnopenedIsQuiet, StagesOfStream
<1>4. ~Recording /\ ~Recording'
  BY <1>1 DEF TypeOK, HoldersWork, Recording
<1>5. ~terminal /\ ~callerClosed
  BY DEF StagesOfStream
<1>6. Fresh'
  BY <1>1, <1>4, <1>5 DEF Ledger, Fresh
<1>7. Ledger'
  BY <1>1, <1>4, <1>5, <1>6 DEF Ledger
<1>. QED
  BY <1>2, <1>3, <1>7

(* The upstream ends, or Close comes before its end: the call has its       *)
(* outcome, and its row is next.                                            *)
LEMMA EndKeeps ==
  ASSUME StreamInv, NEW p \in Callers, ReaderCompletes(p) \/ ReaderFails(p) \/ CloseEarly(p)
  PROVE  StreamInv'
<1>. USE DEF StreamInv, ReaderCompletes, ReaderFails, EndUpstream, CloseEarly, Acquires, Goto, Once
<1>1. /\ opening = "open" /\ ~terminal /\ ~callerClosed /\ ~Recording
      /\ mu' = p /\ (mu = p \/ mu = NoCaller)
  BY DEF HoldersWork, UnopenedIsQuiet, StagesOfStream, Recording
<1>2. Fresh
  BY <1>1 DEF Ledger
<1>3. terminal' \in BOOLEAN /\ callerClosed' \in BOOLEAN /\ cancelled' \in BOOLEAN
  BY Zenon DEF TypeOK
<1>4. TypeOK'
  BY <1>1, <1>3 DEF TypeOK
<1>5. pc' = [pc EXCEPT ![p] = "record"] /\ UNCHANGED opening /\ (terminal' \/ callerClosed')
  OBVIOUS
<1>6. HoldersWork' /\ UnopenedIsQuiet'
  BY <1>1, <1>5 DEF TypeOK, HoldersWork, UnopenedIsQuiet
<1>7. StagesOfStream'
  BY <1>1, <1>5, <1>6 DEF TypeOK, StagesOfStream, HoldersWork
<1>8. Recording' /\ Pending'
  BY <1>2, <1>5 DEF TypeOK, Recording, Pending, Fresh
<1>9. Ledger'
  BY <1>1, <1>5, <1>8 DEF Ledger
<1>. QED
  BY <1>4, <1>6, <1>7, <1>9

(* The row is asked for, and the mutex is free again.                       *)
LEMMA RecordKeeps ==
  ASSUME StreamInv, NEW p \in Callers, Records(p)
  PROVE  StreamInv'
<1>. USE DEF StreamInv, Records, RecordRecv, RecordClose, RecordOutcome, Goto
<1>1. /\ opening = "open" /\ mu = p /\ Recording /\ (terminal \/ callerClosed)
  BY DEF HoldersWork, UnopenedIsQuiet, StagesOfStream, Recording
<1>2. Pending
  BY <1>1 DEF Ledger
<1>3. terminal' \in BOOLEAN
  BY Zenon DEF TypeOK
<1>4. TypeOK'
  BY <1>2, <1>3 DEF TypeOK, Pending, Events
<1>5. HoldersWork' /\ UnopenedIsQuiet'
  BY <1>1 DEF TypeOK, HoldersWork, UnopenedIsQuiet
<1>6. StagesOfStream' /\ ~Recording'
  BY <1>1, <1>5 DEF TypeOK, StagesOfStream, HoldersWork, Recording
<1>7. Settled' /\ UNCHANGED <<opening, callerClosed>> /\ (terminal' \/ callerClosed')
  BY <1>1, <1>2 DEF Settled, Pending
<1>8. Ledger'
  BY <1>1, <1>6, <1>7 DEF Ledger
<1>. QED
  BY <1>4, <1>5, <1>6, <1>8

(* Every step keeps the stream's invariant.                                 *)
LEMMA NextStreamInv == StreamInv /\ [Next]_vars => StreamInv'
<1>. SUFFICES ASSUME StreamInv, [Next]_vars
              PROVE  StreamInv'
  OBVIOUS
<1>1. CASE Cancel \/ UNCHANGED vars
  <2>1. UNCHANGED <<opening, pc, stream, got, call>>
    BY <1>1 DEF Cancel, vars
  <2>2. cancelled' \in BOOLEAN
    BY <1>1, Zenon DEF Cancel, vars, StreamInv, TypeOK
  <2>. QED
    BY <2>1, <2>2 DEF StreamInv, TypeOK, HoldersWork, UnopenedIsQuiet, StagesOfStream, Ledger,
                      Recording, Fresh, Pending, Settled, stream, call
<1>2. ASSUME NEW p \in Callers,
             CallRecv(p) \/ CallClose(p) \/ Locks(p) \/ ReaderReturns(p) \/ Records(p)
      PROVE  StreamInv'
  BY <1>2, CallKeeps, AskKeeps, DeliverKeeps, EndKeeps, RecordKeeps DEF Locks, ReaderReturns
<1>. QED
  BY <1>1, <1>2, OpenKeeps DEF Next

(* Every opened stream asks for exactly one row once it has ended, however  *)
(* many goroutines receive and close.                                       *)
THEOREM StreamHasOneRow == Spec => []OneRowPerStream
<1>1. StreamInv => OneRowPerStream
  <2>. SUFFICES ASSUME StreamInv PROVE OneRowPerStream
    OBVIOUS
  <2>1. mu = NoCaller => ~Recording
    BY DEF StreamInv, HoldersWork, Recording
  <2>. QED
    BY <2>1 DEF StreamInv, TypeOK, UnopenedIsQuiet, Ledger, Settled, OneRowPerStream
<1>. QED
  BY <1>1, InitStreamInv, NextStreamInv, PTL DEF Spec

(* A step of the stream is one of the audited call, or leaves it alone.     *)
LEMMA StreamStepIsAudited == StreamInv /\ [Next]_vars => [Audited!Next]_(Audited!vars)
<1>. SUFFICES ASSUME StreamInv, [Next]_vars
              PROVE  Audited!Next \/ UNCHANGED Audited!vars
  OBVIOUS
<1>. USE DEF Audited!Next, Audited!vars, call
<1>1. CASE UNCHANGED call
  BY <1>1
<1>2. CASE PrepareFails
  BY <1>2 DEF PrepareFails, StreamInv, Ledger, Fresh, Audited!Refuse, Audited!Init
<1>3. CASE StreamFails
  BY <1>3 DEF StreamFails, StreamInv, Ledger, Fresh, Audited!Decide, Audited!Init, Audited!Outcomes
<1>4. CASE RecordStreamFailure
  BY <1>4 DEF RecordStreamFailure, RecordOutcome, StreamInv, Ledger, Pending, Audited!Settle
<1>5. ASSUME NEW p \in Callers, ReaderCompletes(p) \/ ReaderFails(p) \/ CloseEarly(p)
      PROVE  Audited!Next
  <2>1. /\ outcome' \in {"ok", "error"} /\ UNCHANGED <<row, answer>>
        /\ opening = "open" /\ ~terminal /\ ~callerClosed /\ (mu = p \/ mu = NoCaller)
    BY <1>5 DEF ReaderCompletes, ReaderFails, CloseEarly, EndUpstream, Acquires, StreamInv,
                HoldersWork, UnopenedIsQuiet, StagesOfStream
  <2>2. ~Recording
    BY <1>5, <2>1 DEF ReaderCompletes, ReaderFails, CloseEarly, Acquires, StreamInv, HoldersWork,
                      Recording
  <2>3. Fresh
    BY <2>1, <2>2 DEF StreamInv, Ledger
  <2>. QED
    BY <2>1, <2>3 DEF Fresh, Audited!Decide, Audited!Init, Audited!Outcomes
<1>6. ASSUME NEW p \in Callers, Records(p)
      PROVE  Audited!Next
  <2>1. opening = "open" /\ Recording
    BY <1>6 DEF Records, RecordRecv, RecordClose, Recording, StreamInv, UnopenedIsQuiet
  <2>2. Pending
    BY <2>1 DEF StreamInv, Ledger
  <2>. QED
    BY <1>6, <2>2 DEF Records, RecordRecv, RecordClose, RecordOutcome, Pending, Audited!Settle
<1>7. ASSUME Next, ~PrepareFails, ~StreamFails, ~RecordStreamFailure,
             ~\E p \in Callers : ReaderCompletes(p) \/ ReaderFails(p) \/ CloseEarly(p) \/ Records(p)
      PROVE  UNCHANGED call
  BY <1>7 DEF Next, Open, StreamOpens, Cancel, CallRecv, CallClose, Locks, ReaderReturns,
              RecvAfterClose, RecvAfterEnd, AskReader, CloseAgain, CloseAfterEnd, ReaderDelivers
<1>8. CASE UNCHANGED vars
  BY <1>8 DEF vars
<1>. QED
  BY <1>1, <1>2, <1>3, <1>4, <1>5, <1>6, <1>7, <1>8

(* The streamed call implements the audited call: one outcome, one row that *)
(* agrees, and the completed event only with its row.                       *)
THEOREM StreamImplementsAudited == Spec => StreamIsAudited
<1>1. Init => Audited!Init
  BY DEF Init, Audited!Init
<1>. QED
  BY <1>1, InitStreamInv, NextStreamInv, StreamStepIsAudited, PTL
     DEF Spec, StreamIsAudited, Audited!Spec

-----------------------------------------------------------------------------
(* The service.                                                             *)

(* A step of the service is one of the stream, or leaves it alone.          *)
LEMMA ServiceStepsOfStream == [ServiceNext]_serviceVars => [Next]_vars
<1>. SUFFICES ASSUME [ServiceNext]_serviceVars
              PROVE  Next \/ UNCHANGED vars
  OBVIOUS
<1>1. ASSUME NEW c \in Calls, CallSteps(c)
      PROVE  Open \/ UNCHANGED vars
  BY <1>1 DEF CallSteps, Reject, Accept, ResolveNext, ResolveFails, Resolved, ConvertFails, Bind,
              BindFails, Generate, GenerateFails, Refuse, Err, Open
<1>2. CASE StreamSteps
  BY <1>2 DEF StreamSteps, Next, Open
<1>3. CASE MetadataChanges \/ UNCHANGED serviceVars \/ \E c \in Chats : RecordChat(c)
  BY <1>3 DEF MetadataChanges, RecordChat, serviceVars
<1>. QED
  BY <1>1, <1>2, <1>3 DEF ServiceNext, Next

(* The stream of the service is a stream: what is proved of the one holds   *)
(* of the other.                                                            *)
THEOREM ServiceRefinesStream == ServiceSpec => Spec
<1>1. ServiceInit => Init
  BY DEF ServiceInit
<1>. QED
  BY <1>1, ServiceStepsOfStream, PTL DEF ServiceSpec, Spec

(* Definitions are resolved in the order of the Profile's tools; a call that*)
(* goes on has one for each, nothing is offered before, and the adapter's   *)
(* own connector stays without tools.                                       *)
Definition == [name : STRING, edition : Nat]

Before(c) == stage[c] \in {"validate", "resolve", "prepare", "ask"}

OffersInv ==
  /\ edition \in Nat
  /\ stage \in [Calls -> {"validate", "resolve", "prepare", "ask", "record", "over"}]
  /\ resolved \in [Calls -> Seq(Definition)]
  /\ offers \in [Calls -> SUBSET Seq(Definition)]
  /\ bound = <<>>
  /\ \A c \in Calls :
       /\ Len(resolved[c]) <= Len(Tools)
       /\ \A i \in 1..Len(resolved[c]) : resolved[c][i].name = Tools[i]
       /\ stage[c] \in {"prepare", "ask"} => Len(resolved[c]) = Len(Tools)
       /\ stage[c] = "ask" => c \in own \/ resolved[c] = <<>>
       /\ Before(c) => offers[c] = {}
       /\ \A offer \in offers[c] : offer = resolved[c] /\ Len(offer) = Len(Tools)

(* The invariant about offers holds initially.                              *)
LEMMA InitOffersInv == ServiceInit => OffersInv
BY DEF ServiceInit, OffersInv, Before

(* Steps that resolve and offer nothing, and lead to "ask" only with a      *)
(* connector of the call's own, keep the invariant.                         *)
LEMMA NoOfferKeeps ==
  ASSUME OffersInv, UNCHANGED <<resolved, bound, offers>>, own \subseteq own',
         edition' \in Nat,
         NEW c \in Calls,
         NEW s \in {"validate", "resolve", "prepare", "ask", "record", "over"},
         stage' = stage \/ stage' = [stage EXCEPT ![c] = s],
         stage' # stage =>
           /\ Before(c) \/ s = "over"
           /\ s \in {"prepare", "ask"} => Len(resolved[c]) = Len(Tools)
           /\ s = "ask" => c \in own' \/ resolved[c] = <<>>
  PROVE  OffersInv'
<1>1. CASE stage' = stage
  BY <1>1 DEF OffersInv, Before
<1>2. CASE stage' # stage
  <2>1. stage' = [stage EXCEPT ![c] = s]
    BY <1>2
  <2>2. stage' \in [Calls -> {"validate", "resolve", "prepare", "ask", "record", "over"}]
    BY <2>1 DEF OffersInv
  <2>3. stage'[c] = s /\ \A d \in Calls \ {c} : stage'[d] = stage[d]
    BY <2>1 DEF OffersInv
  <2>4. ASSUME NEW d \in Calls
        PROVE  /\ stage'[d] \in {"prepare", "ask"} => Len(resolved[d]) = Len(Tools)
               /\ stage'[d] = "ask" => d \in own' \/ resolved[d] = <<>>
               /\ Before(d)' => offers[d] = {}
    BY <1>2, <2>3 DEF OffersInv, Before
  <2>. QED
    BY <2>2, <2>4 DEF OffersInv
<1>. QED
  BY <1>1, <1>2

(* One definition more, for the next tool.                                  *)
LEMMA ResolveKeeps ==
  ASSUME OffersInv, NEW c \in Calls, ResolveNext(c)
  PROVE  OffersInv'
<1>. USE DEF OffersInv, ResolveNext, At
<1>. DEFINE more == [name |-> Tools[Len(resolved[c]) + 1], edition |-> edition]
<1>1. more \in Definition
  BY DEF Definition
<1>2. /\ resolved' = [resolved EXCEPT ![c] = Append(@, more)]
      /\ UNCHANGED <<stage, edition, own, bound, offers>>
  OBVIOUS
<1>3. /\ resolved'[c] \in Seq(Definition)
      /\ Len(resolved'[c]) = Len(resolved[c]) + 1
      /\ \A i \in 1..Len(resolved[c]) : resolved'[c][i] = resolved[c][i]
      /\ resolved'[c][Len(resolved[c]) + 1] = more
  BY <1>1, <1>2
<1>4. \A i \in 1..Len(resolved'[c]) : resolved'[c][i].name = Tools[i]
  BY <1>3
<1>5. offers[c] = {} /\ Len(resolved'[c]) <= Len(Tools)
  BY <1>3 DEF Before
<1>6. \A d \in Calls \ {c} : resolved'[d] = resolved[d]
  BY <1>2
<1>7. resolved' \in [Calls -> Seq(Definition)]
  BY <1>2, <1>3
<1>. HIDE DEF more
<1>8. ASSUME NEW d \in Calls
      PROVE  /\ Len(resolved'[d]) <= Len(Tools)
             /\ \A i \in 1..Len(resolved'[d]) : resolved'[d][i].name = Tools[i]
             /\ stage'[d] \in {"prepare", "ask"} => Len(resolved'[d]) = Len(Tools)
             /\ stage'[d] = "ask" => d \in own' \/ resolved'[d] = <<>>
             /\ \A offer \in offers'[d] : offer = resolved'[d] /\ Len(offer) = Len(Tools)
  <2>1. CASE d = c
    BY <1>2, <1>4, <1>5, <2>1
  <2>2. CASE d # c
    BY <1>2, <1>6, <2>2
  <2>. QED
    BY <2>1, <2>2
<1>. QED
  BY <1>2, <1>7, <1>8 DEF Before

(* The model is asked with the definitions of the call.                     *)
LEMMA OfferKeeps ==
  ASSUME OffersInv, NEW c \in Calls, Generate(c) \/ GenerateFails(c)
  PROVE  OffersInv'
<1>. USE DEF OffersInv, Generate, GenerateFails, Offer, At, Enter, Err
<1>1. stage[c] = "ask" /\ UNCHANGED <<edition, resolved, own, bound>>
  OBVIOUS
<1>2. offers' = [offers EXCEPT ![c] = {resolved[c]}]
  BY <1>1 DEF Before
<1>3. \E s \in {"record", "over"} : stage' = [stage EXCEPT ![c] = s]
  OBVIOUS
<1>. QED
  BY <1>1, <1>2, <1>3 DEF Before

(* Every step keeps the invariant about offers.                             *)
LEMMA NextOffersInv == OffersInv /\ [ServiceNext]_serviceVars => OffersInv'
<1>. SUFFICES ASSUME OffersInv, [ServiceNext]_serviceVars
              PROVE  OffersInv'
  OBVIOUS
<1>1. ASSUME NEW c \in Calls, CallSteps(c)
      PROVE  OffersInv'
  <2>. USE DEF At, Enter, Before, Refuse, Err, prep
  <2>0. edition \in Nat
    BY DEF OffersInv
  <2>1. CASE Reject(c) \/ ResolveFails(c) \/ ConvertFails(c) \/ BindFails(c)
    BY <2>0, <2>1, NoOfferKeeps DEF Reject, ResolveFails, ConvertFails, BindFails
  <2>2. CASE Accept(c)
    BY <2>0, <2>2, NoOfferKeeps DEF Accept
  <2>3. CASE ResolveNext(c)
    BY <2>3, ResolveKeeps
  <2>4. CASE Resolved(c)
    BY <2>0, <2>4, NoOfferKeeps DEF Resolved
  <2>5. CASE Bind(c)
    <3>1. Len(resolved[c]) = Len(Tools)
      BY <2>5 DEF Bind, OffersInv
    <3>2. own \subseteq own' /\ (c \in own' \/ resolved[c] = <<>>)
      BY <2>5 DEF Bind
    <3>. QED
      BY <2>0, <2>5, <3>1, <3>2, NoOfferKeeps DEF Bind
  <2>6. CASE Generate(c) \/ GenerateFails(c)
    BY <2>6, OfferKeeps
  <2>. QED
    BY <1>1, <2>1, <2>2, <2>3, <2>4, <2>5, <2>6 DEF CallSteps
<1>2. ASSUME NEW c \in Chats, RecordChat(c)
      PROVE  OffersInv'
  BY <1>2, NoOfferKeeps DEF RecordChat, At, Enter, prep, Calls, OffersInv
<1>3. CASE MetadataChanges \/ StreamSteps \/ UNCHANGED serviceVars
  BY <1>3 DEF MetadataChanges, StreamSteps, serviceVars, prep, OffersInv, Before
<1>. QED
  BY <1>1, <1>2, <1>3 DEF ServiceNext

(* Every model call offers the definitions that this very call resolved, one*)
(* for each tool, for any number of calls and whenever the metadata changes.*)
THEOREM OwnToolsOffered == ServiceSpec => []EachCallOffersItsOwnTools
<1>1. OffersInv => EachCallOffersItsOwnTools
  <2>. SUFFICES ASSUME OffersInv, NEW c \in Calls, NEW offer \in offers[c]
                PROVE  offer = resolved[c] /\ [i \in DOMAIN offer |-> offer[i].name] = Tools
    BY DEF EachCallOffersItsOwnTools
  <2>1. /\ offer = resolved[c] /\ offer \in Seq(Definition) /\ Len(offer) = Len(Tools)
        /\ \A i \in 1..Len(offer) : offer[i].name = Tools[i]
    BY DEF OffersInv
  <2>2. DOMAIN offer = 1..Len(Tools) /\ DOMAIN Tools = 1..Len(Tools)
    BY <2>1
  <2>3. Tools = [i \in 1..Len(Tools) |-> Tools[i]]
    BY <2>2
  <2>. QED
    BY <2>1, <2>2, <2>3
<1>. QED
  BY <1>1, InitOffersInv, NextOffersInv, PTL DEF ServiceSpec

-----------------------------------------------------------------------------
(* The calls of Chat.                                                       *)

(* Where a Chat is says how far it has come.                                *)
ChatLedger(c) ==
  /\ Before(c) => chatOutcome[c] = "none" /\ chatRow[c] = "none" /\ chatAnswer[c] = "none"
  /\ stage[c] = "record" =>
       chatOutcome[c] \in {"ok", "error"} /\ chatRow[c] = "none" /\ chatAnswer[c] = "none"

ChatsInv ==
  /\ OffersInv
  /\ chatOutcome \in [Chats -> {"none", "ok", "error"}]
  /\ chatRow \in [Chats -> {"none", "ok", "error", "lost"}]
  /\ chatAnswer \in [Chats -> {"none", "ok", "error"}]
  /\ \A c \in Chats : ChatLedger(c)

(* The invariant about Chats holds initially.                               *)
LEMMA InitChatsInv == ServiceInit => ChatsInv
BY InitOffersInv DEF ServiceInit, ChatsInv, ChatLedger, Before, Calls

(* What the step of one call does to a Chat: its own steps decide its       *)
(* outcome, refuse it, or settle it, and those of others leave it alone.    *)
LEMMA ChatStep ==
  ASSUME ChatsInv, [ServiceNext]_serviceVars, NEW c \in Chats
  PROVE  \/ /\ chatOutcome'[c] = chatOutcome[c]
            /\ chatRow'[c] = chatRow[c] /\ chatAnswer'[c] = chatAnswer[c]
            /\ stage'[c] = stage[c] \/ (Before(c) /\ Before(c)')
         \/ /\ Before(c) /\ stage'[c] = "over" /\ chatAnswer'[c] = "error"
            /\ chatOutcome'[c] = chatOutcome[c] /\ chatRow'[c] = chatRow[c]
         \/ /\ Before(c) /\ stage'[c] = "record" /\ chatOutcome'[c] \in {"ok", "error"}
            /\ chatRow'[c] = chatRow[c] /\ chatAnswer'[c] = chatAnswer[c]
         \/ /\ stage[c] = "record" /\ stage'[c] = "over"
            /\ chatOutcome'[c] = chatOutcome[c] /\ chatRow'[c] \in {chatOutcome[c], "lost"}
            /\ chatAnswer'[c] = IF chatRow'[c] = "ok" THEN "ok" ELSE "error"
<1>. USE DEF At, Enter, chats, Before
<1>0. /\ stage \in [Calls -> {"validate", "resolve", "prepare", "ask", "record", "over"}]
      /\ chatOutcome \in [Chats -> {"none", "ok", "error"}]
      /\ chatRow \in [Chats -> {"none", "ok", "error", "lost"}]
      /\ chatAnswer \in [Chats -> {"none", "ok", "error"}]
      /\ c \in Calls /\ c # TheStream
  BY DEF ChatsInv, OffersInv, Calls
<1>1. ASSUME NEW d \in Calls, d # c, CallSteps(d)
      PROVE  /\ chatOutcome'[c] = chatOutcome[c] /\ stage'[c] = stage[c]
             /\ chatRow'[c] = chatRow[c] /\ chatAnswer'[c] = chatAnswer[c]
  BY <1>0, <1>1 DEF CallSteps, Reject, Accept, ResolveNext, ResolveFails, Resolved, ConvertFails,
                    Bind, BindFails, Generate, GenerateFails, Refuse, Err
<1>2. CASE Reject(c) \/ ResolveFails(c)
  BY <1>0, <1>2 DEF Reject, ResolveFails, Refuse
<1>3. CASE Accept(c) \/ ResolveNext(c) \/ Resolved(c) \/ Bind(c)
  BY <1>0, <1>3 DEF Accept, ResolveNext, Resolved, Bind
<1>4. CASE ConvertFails(c) \/ BindFails(c) \/ Generate(c) \/ GenerateFails(c)
  BY <1>0, <1>4 DEF ConvertFails, BindFails, Generate, GenerateFails, Err
<1>5. CASE RecordChat(c)
  BY <1>0, <1>5 DEF RecordChat
<1>6. ASSUME NEW d \in Chats, d # c, RecordChat(d)
      PROVE  /\ chatOutcome'[c] = chatOutcome[c] /\ stage'[c] = stage[c]
             /\ chatRow'[c] = chatRow[c] /\ chatAnswer'[c] = chatAnswer[c]
  BY <1>0, <1>6 DEF RecordChat
<1>7. CASE MetadataChanges \/ StreamSteps \/ UNCHANGED serviceVars
  BY <1>7 DEF MetadataChanges, StreamSteps, serviceVars
<1>. QED
  BY <1>0, <1>1, <1>2, <1>3, <1>4, <1>5, <1>6, <1>7 DEF ServiceNext, CallSteps

(* Every step keeps the types of what is known of Chats.                    *)
LEMMA ChatTypes ==
  ASSUME ChatsInv, [ServiceNext]_serviceVars
  PROVE  /\ chatOutcome' \in [Chats -> {"none", "ok", "error"}]
         /\ chatRow' \in [Chats -> {"none", "ok", "error", "lost"}]
         /\ chatAnswer' \in [Chats -> {"none", "ok", "error"}]
<1>1. ASSUME NEW c \in Calls, CallSteps(c)
      PROVE  /\ chatOutcome' \in [Chats -> {"none", "ok", "error"}]
             /\ chatAnswer' \in [Chats -> {"none", "ok", "error"}] /\ chatRow' = chatRow
  BY <1>1 DEF ChatsInv, CallSteps, Reject, Accept, ResolveNext, ResolveFails, Resolved,
              ConvertFails, Bind, BindFails, Generate, GenerateFails, Refuse, Err, chats
<1>2. ASSUME NEW c \in Chats, RecordChat(c)
      PROVE  /\ chatRow' \in [Chats -> {"none", "ok", "error", "lost"}]
             /\ chatAnswer' \in [Chats -> {"none", "ok", "error"}] /\ chatOutcome' = chatOutcome
  BY <1>2 DEF RecordChat, ChatsInv
<1>3. CASE MetadataChanges \/ StreamSteps \/ UNCHANGED serviceVars
  BY <1>3 DEF MetadataChanges, StreamSteps, serviceVars, chats, ChatsInv
<1>. QED
  BY <1>1, <1>2, <1>3 DEF ServiceNext, ChatsInv

(* Every step keeps the invariant about Chats.                              *)
LEMMA NextChatsInv == ChatsInv /\ [ServiceNext]_serviceVars => ChatsInv'
<1>. SUFFICES ASSUME ChatsInv, [ServiceNext]_serviceVars
              PROVE  ChatsInv'
  OBVIOUS
<1>1. OffersInv'
  BY NextOffersInv DEF ChatsInv
<1>2. ASSUME NEW c \in Chats
      PROVE  ChatLedger(c)'
  BY ChatStep DEF ChatsInv, ChatLedger, Before
<1>. QED
  BY <1>1, <1>2, ChatTypes DEF ChatsInv

(* Every call of Chat implements the audited call beside the others, for any*)
(* number of calls.                                                         *)
THEOREM ChatsImplementAudited == ServiceSpec => ChatsAreAudited
<1>1. ServiceInit => \A c \in Chats : Chat(c)!Init
  BY DEF ServiceInit, Chat!Init
<1>2. ChatsInv /\ [ServiceNext]_serviceVars
        => [\A c \in Chats : Chat(c)!Next \/ UNCHANGED Chat(c)!vars]_chats
  <2>. SUFFICES ASSUME ChatsInv, [ServiceNext]_serviceVars, NEW c \in Chats
                PROVE  Chat(c)!Next \/ UNCHANGED Chat(c)!vars
    OBVIOUS
  <2>1. ChatLedger(c)
    BY DEF ChatsInv
  <2>. QED
    BY <2>1, ChatStep DEF ChatLedger, Chat!Next, Chat!vars, Chat!Refuse, Chat!Decide, Chat!Settle,
                          Chat!Init, Chat!Outcomes
<1>. QED
  BY <1>1, <1>2, InitChatsInv, NextChatsInv, PTL DEF ServiceSpec, ChatsAreAudited
=============================================================================
