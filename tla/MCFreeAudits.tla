---------------------------- MODULE MCFreeAudits ----------------------------
EXTENDS FreeAudits

\* Pages with a noindex, no HTTPS, no title and a foreign canonical URL; the
\* second one is also an error page, and has more findings than the score allows.
SmallPages ==
    LET page(c, h, m) == [critical |-> c, high |-> h, medium |-> m, low |-> 0]
    IN  {page(1, 4, 0), page(2, 4, 2)}
=============================================================================
