-------------------------------- MODULE WebAPI --------------------------------
(***************************************************************************)
(* The shared contract of HTTP responses (package api): which envelopes    *)
(* Success, Error and Page write, and the arithmetic of pagination.  Words *)
(* wrap around, int64 at MaxInt and uint64 at about twice that, so that    *)
(* their limits are within reach.  A message is determined by its code;    *)
(* `worded` says that the handler gave the one that belongs to it.         *)
(***************************************************************************)
EXTENDS Integers, Sequences, SequencesExt

CONSTANTS
  MaxInt,      \* the largest int64
  MaxPage,     \* maxPage and maxPageSize
  MaxPageSize,
  DefaultPageSize

ASSUME MaxIntAssumption == MaxInt \in Nat \ {0}

MaxUint == 2 * MaxInt + 1

ASSUME LimitsAssumption ==
  /\ MaxPage \in Nat \ {0} /\ MaxPageSize \in Nat \ {0}
  /\ MaxPage <= MaxUint /\ MaxPageSize <= MaxInt
  /\ DefaultPageSize \in 1..MaxPageSize

Overflow == -1

(* int64 arithmetic wraps around.                                          *)
Signed(n) == ((n + MaxInt + 1) % (MaxUint + 1)) - (MaxInt + 1)

-----------------------------------------------------------------------------
(* Envelopes.                                                              *)

SuccessDescriptors == {<<200, "ok">>, <<201, "created">>}

ErrorDescriptors == {
  <<400, "invalid_request">>, <<400, "invalid_argument">>, <<404, "not_found">>,
  <<405, "method_not_allowed">>, <<409, "conflict">>, <<413, "payload_too_large">>,
  <<429, "rate_limited">>, <<500, "internal">>, <<501, "not_implemented">>,
  <<503, "not_ready">>}

DetailRules == {"required", "invalid_format", "out_of_range", "duplicate", "too_large"}

(* Details are absent (<<>>) or a pair of a field's name, which is well    *)
(* formed or not, and a rule; a map of any other size is <<"other">>.      *)
ValidDetails(details) ==
  \/ details = <<>>
  \/ Len(details) = 2 /\ details[1] = "field" /\ details[2] \in DetailRules

(* The data of a page is <<page, size, total, pages>>; other data is left  *)
(* out.                                                                    *)
Envelope(status, code) == [status |-> status, code |-> code, data |-> <<>>]
InternalFallback == Envelope(500, "internal")

Success(status, code, worded) ==
  IF worded /\ <<status, code>> \in SuccessDescriptors
    THEN Envelope(status, code) ELSE InternalFallback

Error(status, code, worded, details) ==
  IF worded /\ <<status, code>> \in ErrorDescriptors /\ ValidDetails(details)
    THEN Envelope(status, code) ELSE InternalFallback

-----------------------------------------------------------------------------
(* Pagination.                                                             *)

TotalPages(total, size) ==
  LET pages == total \div size
  IN  IF total % size # 0 THEN Signed(pages + 1) ELSE pages

(* Mutant: the guard against overflow forgets the digit to come.           *)
AddDigitUnguarded(parsed, digit) ==
  IF parsed = Overflow \/ parsed > MaxUint \div 10
    THEN Overflow ELSE (parsed * 10 + digit) % (MaxUint + 1)

(* One digit more, guarded before the multiplication.                      *)
AddDigit(parsed, digit) ==
  IF parsed = Overflow \/ parsed > (MaxUint - digit) \div 10
    THEN Overflow ELSE (parsed * 10 + digit) % (MaxUint + 1)

Parse(digits) ==
  LET parsed[n \in 0..Len(digits)] ==
        IF n = 0 THEN 0 ELSE AddDigit(parsed[n - 1], digits[n])
  IN  parsed[Len(digits)]

(* A query parameter is the sequence of its values, each a sequence of     *)
(* digits, with NoDigit for any other character.                           *)
NoDigit == 10
Accepted(number) == [value |-> number, rule |-> "none"]
Refused(rule) == [value |-> 0, rule |-> rule]

ParsePaginationValue(raw, default, maximum) ==
  IF raw = <<>> THEN Accepted(default)
  ELSE IF Len(raw) # 1 THEN Refused("duplicate")
  ELSE IF raw[1] = <<>> \/ NoDigit \in Range(raw[1]) THEN Refused("invalid_format")
  ELSE LET parsed == Parse(raw[1])
       IN  IF parsed \in 1..maximum THEN Accepted(parsed) ELSE Refused("out_of_range")

ParsePagination(query) ==
  LET page == ParsePaginationValue(query.page, 1, MaxPage)
      size == ParsePaginationValue(query.size, DefaultPageSize, MaxPageSize)
      rule == IF page.rule # "none" THEN page.rule ELSE size.rule
  IN  [page |-> page.value, size |-> size.value, rule |-> rule]

ValidPage(page, size, total) == page \in 1..MaxPage /\ size \in 1..MaxPageSize /\ total >= 0

Page(status, code, worded, page, size, total) ==
  IF worded /\ status = 200 /\ code = "ok" /\ ValidPage(page, size, total)
    THEN [Envelope(status, code) EXCEPT !.data = <<page, size, total, TotalPages(total, size)>>]
    ELSE InternalFallback
=============================================================================
