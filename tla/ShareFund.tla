----------------------------- MODULE ShareFund -----------------------------
(***************************************************************************)
(* What a share fund promises its members: money in and out at the price   *)
(* of the moment, rounded by less than one unit and always in favour of    *)
(* those who stay.  The founder leaves a part of the first shares with     *)
(* nobody, in `Reserve`, and they stay there.  How amounts become shares,  *)
(* who may stop the fund and how wide the numbers are is not said here.    *)
(***************************************************************************)
EXTENDS Integers

CONSTANTS Members, Reserve

VARIABLES assets, total, stakes

fund == <<assets, total, stakes>>

Init ==
    /\ assets = 0
    /\ total = 0
    /\ stakes = [m \in Members \cup {Reserve} |-> 0]

\* The first payment: a share for each unit, some of them out of reach for good.
Found(m) ==
    /\ assets = 0
    /\ total = 0
    /\ assets' > 0
    /\ total' = assets'
    /\ stakes'[Reserve] > 0
    /\ stakes'[m] > 0
    /\ stakes'[Reserve] + stakes'[m] = total'
    /\ stakes' = [stakes EXCEPT ![Reserve] = stakes'[Reserve], ![m] = stakes'[m]]

\* A later payment buys the shares it covers, and less than one more.
Join(m) ==
    LET paid == assets' - assets
        got  == total' - total
    IN  /\ total > 0
        /\ paid > 0
        /\ got > 0
        /\ got * assets <= paid * total
        /\ (got + 1) * assets > paid * total
        /\ stakes' = [stakes EXCEPT ![m] = @ + got]

\* Shares given up are paid their part of the assets, short of one unit at most.
Leave(m) ==
    LET gone == total - total'
        out  == assets - assets'
    IN  /\ gone > 0
        /\ gone <= stakes[m]
        /\ out >= gone
        /\ out * total <= gone * assets
        /\ (out + 1) * total > gone * assets
        /\ stakes' = [stakes EXCEPT ![m] = @ - gone]

Next == \E m \in Members : Found(m) \/ Join(m) \/ Leave(m)

Spec == Init /\ [][Next]_fund
=============================================================================
