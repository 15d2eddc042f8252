----------------------------- MODULE MCHTTPServer -----------------------------
(* Queries for HTTPServer with words of 6 bits: the largest total, a page   *)
(* number just beyond the largest word, an empty listing, and parameters    *)
(* that are given twice or are no number.                                   *)
EXTENDS HTTPServer

Query(page, size, total) == [page |-> page, size |-> size, total |-> total]

MCQueries ==
  {Query(<<<<4, 0>>>>, <<>>, MaxInt),
   Query(<<<<MaxUint \div 10, 6>>>>, <<>>, 8),
   Query(<<>>, <<<<1>>>>, 0),
   Query(<<<<1>>, <<2>>>>, <<>>, 8),
   Query(<<>>, <<<<1, NoDigit>>>>, 8)}
=============================================================================
