--------------------------- MODULE ProviderService ---------------------------
(***************************************************************************)
(* Calls of Service.Chat beside one of Service.ChatStream, for one Profile:*)
(* they share its model, an adapter around one Eino connector, and the     *)
(* source of tool metadata, which may change while they run.  prepareCall  *)
(* and einoChatModelAdapter.prepare are common to both; what happens to    *)
(* the stream once it is open is ResponseStream's.                         *)
(***************************************************************************)
EXTENDS ResponseStream, Sequences

CONSTANTS
  Chats,       \* calls of Chat
  TheStream,   \* the call of ChatStream
  Tools,       \* tool names of the Profile, in its order
  MaxEdition   \* bound: editions of the tool metadata

Calls == Chats \cup {TheStream}

ASSUME StreamAssumption == TheStream \notin Chats
ASSUME ToolsAssumption == Tools \in Seq(STRING)
ASSUME MaxEditionAssumption == MaxEdition \in Nat \ {0}

VARIABLES
  edition,      \* edition of the metadata the source gives at present
  stage,        \* where each call is
  resolved,     \* definitions each call has resolved so far
  own,          \* calls whose connector is one that WithTools returned
  bound,        \* tools bound to the connector of the shared adapter
  offers,       \* the offers of tools made to the model in each call
  unbound,      \* calls that ended because WithTools failed
  chatOutcome, chatRow, chatAnswer  \* as outcome, row and answer, per Chat

prep  == <<edition, resolved, own, bound, offers, unbound>>
chats == <<chatOutcome, chatRow, chatAnswer>>
serviceVars == <<vars, stage, prep, chats>>

ServiceInit ==
  /\ Init
  /\ edition = 1
  /\ stage = [c \in Calls |-> "validate"]
  /\ resolved = [c \in Calls |-> <<>>]
  /\ own = {} /\ bound = <<>> /\ unbound = {}
  /\ offers = [c \in Calls |-> {}]
  /\ chatOutcome = [c \in Chats |-> "none"]
  /\ chatRow = [c \in Chats |-> "none"]
  /\ chatAnswer = [c \in Chats |-> "none"]

-----------------------------------------------------------------------------
At(c, s) == stage[c] = s
Enter(c, s) == stage' = [stage EXCEPT ![c] = s]

(* The call returns an error, and no model call was attempted.             *)
Refuse(c) ==
  /\ Enter(c, "over")
  /\ \/ c = TheStream /\ PrepareFails /\ UNCHANGED chats
     \/ /\ c \in Chats
        /\ chatAnswer' = [chatAnswer EXCEPT ![c] = "error"]
        /\ UNCHANGED <<vars, chatOutcome, chatRow>>

(* ChatModel.Generate or Stream returns an error.                          *)
Err(c) ==
  \/ c = TheStream /\ StreamFails /\ Enter(c, "over") /\ UNCHANGED chats
  \/ /\ c \in Chats
     /\ chatOutcome' = [chatOutcome EXCEPT ![c] = "error"]
     /\ Enter(c, "record")
     /\ UNCHANGED <<vars, chatRow, chatAnswer>>

-----------------------------------------------------------------------------
(* prepareCall.                                                            *)

(* No context, session or Profile; no model bound to the Profile; tools,   *)
(* and no resolver.                                                        *)
Reject(c) ==
  /\ At(c, "validate")
  /\ Refuse(c)
  /\ UNCHANGED prep

Accept(c) ==
  /\ At(c, "validate")
  /\ Enter(c, "resolve")
  /\ UNCHANGED <<vars, prep, chats>>

(* Resolve asks the source for one name after the other.                   *)
ResolveNext(c) ==
  /\ At(c, "resolve")
  /\ Len(resolved[c]) < Len(Tools)
  /\ resolved' = [resolved EXCEPT ![c] =
       Append(@, [name |-> Tools[Len(@) + 1], edition |-> edition])]
  /\ UNCHANGED <<vars, stage, edition, own, bound, offers, unbound, chats>>

(* A blank name, or a tool the source does not know.                       *)
ResolveFails(c) ==
  /\ At(c, "resolve")
  /\ Len(resolved[c]) < Len(Tools)
  /\ Refuse(c)
  /\ UNCHANGED prep

Resolved(c) ==
  /\ At(c, "resolve")
  /\ Len(resolved[c]) = Len(Tools)
  /\ Enter(c, "prepare")
  /\ UNCHANGED <<vars, prep, chats>>

-----------------------------------------------------------------------------
(* einoChatModelAdapter.prepare, then the connector's Generate or Stream.  *)

(* A role, tool name or tool schema without an Eino form.                  *)
ConvertFails(c) ==
  /\ At(c, "prepare")
  /\ Err(c)
  /\ UNCHANGED prep

(* Mutant: what WithTools returns replaces the adapter's connector.        *)
BindShared(c) ==
  /\ At(c, "prepare")
  /\ bound' = IF resolved[c] = <<>> THEN bound ELSE resolved[c]
  /\ Enter(c, "ask")
  /\ UNCHANGED <<vars, edition, resolved, own, offers, unbound, chats>>

(* With tools, the call goes on with the connector that WithTools returns; *)
(* the adapter keeps its own.                                              *)
Bind(c) ==
  /\ At(c, "prepare")
  /\ own' = IF resolved[c] = <<>> THEN own ELSE own \cup {c}
  /\ Enter(c, "ask")
  /\ UNCHANGED <<vars, edition, resolved, bound, offers, unbound, chats>>

BindFails(c) ==
  /\ At(c, "prepare")
  /\ resolved[c] # <<>>
  /\ unbound' = unbound \cup {c}
  /\ Err(c)
  /\ UNCHANGED <<edition, resolved, own, bound, offers>>

Offer(c) ==
  offers' = [offers EXCEPT ![c] = @ \cup {IF c \in own THEN resolved[c] ELSE bound}]

(* The connector is asked, and its answer has an OryxOS form.              *)
Generate(c) ==
  /\ At(c, "ask")
  /\ Offer(c)
  /\ \/ c = TheStream /\ StreamOpens /\ Enter(c, "over") /\ UNCHANGED chats
     \/ /\ c \in Chats
        /\ chatOutcome' = [chatOutcome EXCEPT ![c] = "ok"]
        /\ Enter(c, "record")
        /\ UNCHANGED <<vars, chatRow, chatAnswer>>
  /\ UNCHANGED <<edition, resolved, own, bound, unbound>>

(* It fails, is cancelled, or answers nothing or what has no such form.    *)
GenerateFails(c) ==
  /\ At(c, "ask")
  /\ Offer(c)
  /\ Err(c)
  /\ UNCHANGED <<edition, resolved, own, bound, unbound>>

-----------------------------------------------------------------------------
(* Mutant: the row of a failed call is written, its loss is not reported,  *)
(* and neither is the failure.                                             *)
RecordForgetsError(c) ==
  /\ At(c, "record")
  /\ \E row_ \in {chatOutcome[c], "lost"} :
       /\ chatRow' = [chatRow EXCEPT ![c] = row_]
       /\ chatAnswer' = [chatAnswer EXCEPT ![c] = IF row_ = "lost" THEN "error" ELSE "ok"]
  /\ Enter(c, "over")
  /\ UNCHANGED <<vars, prep, chatOutcome>>

(* Service.recordOutcome and the end of Chat: a response whose row is lost *)
(* comes with an AuditPersistenceError.                                    *)
RecordChat(c) ==
  /\ At(c, "record")
  /\ \E row_ \in {chatOutcome[c], "lost"} :
       /\ chatRow' = [chatRow EXCEPT ![c] = row_]
       /\ chatAnswer' = [chatAnswer EXCEPT ![c] = IF row_ = "ok" THEN "ok" ELSE "error"]
  /\ Enter(c, "over")
  /\ UNCHANGED <<vars, prep, chatOutcome>>

(* The tools' metadata changes: a tool server is updated, say.             *)
MetadataChanges ==
  /\ edition < MaxEdition
  /\ edition' = edition + 1
  /\ UNCHANGED <<vars, stage, resolved, own, bound, offers, unbound, chats>>

(* What ResponseStream says of the stream once ChatStream has called.     *)
StreamSteps ==
  /\ \/ RecordStreamFailure
     \/ Cancel
     \/ \E p \in Callers : CallRecv(p) \/ CallClose(p) \/ Locks(p) \/ ReaderReturns(p) \/ Records(p)
  /\ UNCHANGED <<stage, prep, chats>>

CallSteps(c) ==
  \/ Reject(c) \/ Accept(c) \/ ResolveNext(c) \/ ResolveFails(c) \/ Resolved(c)
  \/ ConvertFails(c) \/ Bind(c) \/ BindFails(c) \/ Generate(c) \/ GenerateFails(c)

ServiceNext ==
  \/ \E c \in Calls : CallSteps(c)
  \/ \E c \in Chats : RecordChat(c)
  \/ MetadataChanges
  \/ StreamSteps

ServiceSpec == ServiceInit /\ [][ServiceNext]_serviceVars /\ Fairness

-----------------------------------------------------------------------------
(* Properties.                                                             *)

(* The model is offered one definition per tool of the Profile, in its     *)
(* order, and those that this very call has resolved, whichever calls use  *)
(* the shared adapter at the same time.  (Resolve; the local connector of  *)
(* prepare; contracts/provider-service.md, Chat, items 2 to 4.)            *)
EachCallOffersItsOwnTools ==
  \A c \in Calls : \A offer \in offers[c] :
    /\ offer = resolved[c]
    /\ [i \in DOMAIN offer |-> offer[i].name] = Tools

(* Every Chat keeps the promise of an audited call beside the others: no   *)
(* trace of a refused call, one outcome, one row that says the same, and   *)
(* success only with both.  (Chat, recordOutcome; spec 001, FR-009.)       *)
Chat(c) == INSTANCE AuditedCall
             WITH outcome <- chatOutcome[c], row <- chatRow[c], answer <- chatAnswer[c]

ChatsAreAudited ==
  /\ \A c \in Chats : Chat(c)!Init
  /\ [][\A c \in Chats : Chat(c)!Next \/ UNCHANGED Chat(c)!vars]_chats

(* contracts/provider-service.md: "Tool metadata resolution or Eino schema *)
(* binding failure occurs before a Provider call and therefore does not    *)
(* create an LLM attempt row."  The adapter binds inside Generate, and     *)
(* Chat records every error of Generate: see the run that refutes this.    *)
BindingFailureLeavesNoRow == \A c \in Chats \cap unbound : chatRow[c] = "none"
=============================================================================
