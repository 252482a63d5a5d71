------------------------------- MODULE MCLink -------------------------------
EXTENDS Link
\* empty and short messages, and some that fill one or two blocks of Limit = 3
MCMessage ==
    UNION {[1..n -> {0, 3}] : n \in 0..2}
      \cup {<<1, 3, 0>>, <<0, 1, 3>>, <<1, 1, 1, 1, 3>>}
=============================================================================
