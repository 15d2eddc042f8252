---------------------------- MODULE PromptBuilder ----------------------------
(***************************************************************************)
(* How PromptBuilder.Build chooses the part of a conversation that a model *)
(* call sees.  A conversation is a sequence of messages; the operators     *)
(* look only at a message's role, its text, and the size the constant      *)
(* Size(_) gives it (messagesRuneCount).  The fixed sections around the    *)
(* conversation ([RUNTIME_RULES] ... [CURRENT_DATETIME]) do not depend on  *)
(* the Session; Budget is what max input runes leave for the conversation. *)
(***************************************************************************)
EXTENDS Naturals, Sequences, FiniteSetsExt

CONSTANTS
  Size(_),        \* runes of one message
  HistoryLimit,   \* Profile max_history_turns, or 20 when the Profile has none
  Budget          \* runes left for history and current turn

ASSUME HistoryLimitAssumption == HistoryLimit \in Nat \ {0}
ASSUME BudgetAssumption == Budget \in Nat

(* The part of s that starts at position p.                                *)
From(s, p) == SubSeq(s, p, Len(s))

(* Mutant: truncation counts messages instead of turns.                    *)
EveryPosition(s) == 1..Len(s)

(* Positions of the messages that root a turn.                             *)
TurnStarts(s) == {p \in 1..Len(s) : s[p].role = "user"}

(* Mutant: the current turn starts at the last user message of anyone.     *)
LastTurnStart(s, text) == Max({0} \cup TurnStarts(s))

(* splitCurrentTurn: the current turn starts at the last user message with *)
(* the text of the request; 0 means that there is none.                    *)
CurrentStart(s, text) ==
  Max({0} \cup {p \in TurnStarts(s) : s[p].text = text})

(* limitCompleteTurns: of the turns that start at the given positions, the *)
(* newest `limit`.                                                         *)
LimitCompleteTurns(starts, limit) ==
  {p \in starts : Cardinality({q \in starts : q >= p}) <= limit}

(* messagesRuneCount.                                                      *)
RuneCount(s) == MapThenSumSet(LAMBDA p : Size(s[p]), 1..Len(s))

(* PromptBuilder.Build.  What it returns is history followed by current    *)
(* turn, each a slice of the Session's messages that ends where the next   *)
(* begins, so it is a part of the conversation from some position on: from *)
(* the oldest of the newest turns, or from a later turn as often as        *)
(* dropOldestCompleteTurn is needed for the budget, and from the current   *)
(* turn at the latest.  Build fails when the current turn alone is too     *)
(* large, and makes up a current turn when the Session has none.           *)
Build(s, request) ==
  LET all     == IF CurrentStart(s, request.text) = 0 THEN Append(s, request) ELSE s
      current == CurrentStart(all, request.text)
      turns   == LimitCompleteTurns({p \in TurnStarts(all) : p < current}, HistoryLimit)
      fitting == {p \in turns \cup {current} : RuneCount(From(all, p)) <= Budget}
  IN  IF fitting = {}
        THEN [ok |-> FALSE, messages |-> <<>>]
        ELSE [ok |-> TRUE, messages |-> From(all, Min(fitting))]
=============================================================================
