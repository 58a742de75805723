------------------------- MODULE SmartAccountProperties -------------------------
(* What SmartAccount guarantees.                                           *)
EXTENDS SmartAccount

Prices == {NoPrice} \cup 0 .. MaxGasPrice
Quotes == [state : {"asked", "there", "failed"}, price : Prices, fresh : BOOLEAN]
Submissions ==
    [phase : {"new", "preparing", "signing", "sending", "waiting", "done", "ended", "timedOut"},
     quote : Nat, price : Prices, above : Prices,
     bundler : {"absent", "pending", "included", "failed", "rejected"}, known : BOOLEAN,
     polls : Nat, notFound : Nat, landed : Nat]

SendTypeOK ==
    /\ quotes \in Seq(Quotes) /\ cached \in 0 .. Len(quotes)
    /\ operation \in [Operations -> Submissions]
    /\ \A o \in Operations : operation[o].phase = "preparing" => operation[o].quote \in DOMAIN quotes
    /\ gasPrice \in 0 .. MaxGasPrice /\ refused \in Prices
    /\ sendFaults \in Nat

-----------------------------------------------------------------------------

\* An operation begun after others were refused for their price does not carry that
\* price again, nor one quoted before, whoever else renewed the quote meanwhile.
PriceIsNews == \A o \in Operations :
    operation[o].price # NoPrice => operation[o].price > operation[o].above

\* A sender that gave up at its deadline had not polled often since its operation
\* was executed, whatever the bundler had forgotten.
LandedIsFound == \A o \in Operations :
    operation[o].phase = "timedOut" => operation[o].landed < NotFoundReceiptCheckEvery

\* No submission is in vain: it is neither refused for what was refused before nor
\* given up though it has been executed.
NoSendInVain == PriceIsNews /\ LandedIsFound
=================================================================================
