------------------------- MODULE MCCongressFollower -------------------------
(* Small instances of CongressFollower for TLC.                             *)
EXTENDS CongressFollower

CONSTANTS e1, e2, s1, s2, s3

Says(hash, symbol, action, price) ==
  [hash |-> hash, symbol |-> symbol, action |-> action, price |-> price]

\* Two members buy s1, one of them files twice; others buy s2, once without a
\* price, and s3, one symbol more than the theme may hold; s1 is sold.
MixedFeed == <<
  Says("a-s1-buy", s1, "buy", 1), Says("b-s2-buy", s2, "buy", 1),
  Says("a-s1-buy", s1, "buy", 1), Says("a-s3-buy", s3, "buy", 1),
  Says("c-s1-buy", s1, "buy", 2), Says("c-s2-buy", s2, "buy", NoPrice),
  Says("a-s1-sell", s1, "sell", 2)>>

\* Two disclosures of one symbol, and a sale.
ShortFeed == <<
  Says("a-s1-buy", s1, "buy", 1), Says("b-s1-buy", s1, "buy", 2),
  Says("a-s1-sell", s1, "sell", 2)>>

\* A purchase, and a sale of the same symbol.
PairFeed == <<Says("a-s1-buy", s1, "buy", 1), Says("a-s1-sell", s1, "sell", 2)>>
=============================================================================
