------------------------------ MODULE MCOracle ------------------------------
EXTENDS Oracle

CONSTANTS a, b

TwoPurchases == {a, b}

OneInLoop == {a}

BothPay == [c \in TwoPurchases |-> Price]

\* The second client was configured with less than the oracle's price.
OnePaysTooLittle == [BothPay EXCEPT ![b] = Price - 1]

AnyAmounts == {BothPay, OnePaysTooLittle}
=============================================================================
