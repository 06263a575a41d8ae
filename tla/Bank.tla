-------------------------------- MODULE Bank --------------------------------
(***************************************************************************)
(* What the exchange promises about tokens, without orders, markets or      *)
(* locks: it is a bank.  A player's holding of a token is one number,       *)
(* available or locked.  Holdings change by a deposit, a withdrawal, a      *)
(* transfer, or the settlement of a trade, in which two players deliver to  *)
(* each other at the same moment and may each pay a fee.                    *)
(*                                                                         *)
(* The exchange keeps u64 numbers.  Only of a token of which more was       *)
(* credited than they can count may something be lost, and only when a      *)
(* trade is settled.                                                       *)
(***************************************************************************)
EXTENDS Integers, Sums

CONSTANTS
  NumPlayers,   \* players are 1..NumPlayers
  Tokens,
  FeeToken, Fee,
  Amounts,      \* what a transaction can move
  Capacity      \* the largest number that a holding can be

VARIABLES
  held,         \* [Players -> [Tokens -> Nat]]
  fees,         \* collected, in FeeToken
  credited, debited    \* [Tokens -> Nat], what ever came in and went out

Players == 1 .. NumPlayers
bank_vars == <<held, fees, credited, debited>>

FeesIn(t) == IF t = FeeToken THEN fees ELSE 0
Total(t) ==
  SumTo([p \in Players |-> held[p][t]], NumPlayers) + FeesIn(t) + debited[t]

BankType ==
  /\ held \in [Players -> [Tokens -> Nat]]
  /\ fees \in Nat
  /\ credited \in [Tokens -> Nat]
  /\ debited \in [Tokens -> Nat]

\* A bank opens with what was credited.
Init == BankType /\ \A t \in Tokens : Total(t) = credited[t]

Credit(p, t, n) ==
  /\ credited' = [credited EXCEPT ![t] = @ + n]
  /\ held' = [held EXCEPT ![p][t] = @ + n]
  /\ UNCHANGED <<fees, debited>>

Debit(p, t, n) ==
  /\ n <= held[p][t]
  /\ debited' = [debited EXCEPT ![t] = @ + n]
  /\ held' = [held EXCEPT ![p][t] = @ - n]
  /\ UNCHANGED <<fees, credited>>

Move(p, q, t, n) ==
  /\ p # q
  /\ n <= held[p][t]
  /\ held' = [held EXCEPT ![p][t] = @ - n, ![q][t] = @ + n]
  /\ UNCHANGED <<fees, credited, debited>>

\* A number that should be `due` of token t becomes `new`.
Arrives(new, due, t) ==
  /\ new \in 0 .. due
  /\ credited[t] <= Capacity => new = due

Part(t, token, n) == IF t = token THEN n ELSE 0

\* Players p and q trade: p gives x of token a for y of token b.  Their fees
\* leave them at the same moment; nobody goes into debt, and nobody else is
\* touched.
Settle(p, q, fee_p, fee_q) ==
  /\ p # q
  /\ UNCHANGED <<credited, debited>>
  /\ held' \in [Players -> [Tokens -> Nat]]
  /\ \A r \in Players \ {p, q} : held'[r] = held[r]
  /\ Arrives(fees', fees + fee_p + fee_q, FeeToken)
  /\ \E a, b \in Tokens, x, y \in Amounts : \A t \in Tokens :
       /\ Arrives(held'[p][t], held[p][t] - Part(t, a, x) + Part(t, b, y)
                                 - Part(t, FeeToken, fee_p), t)
       /\ held'[q][t] = held[q][t] + Part(t, a, x) - Part(t, b, y)
                          - Part(t, FeeToken, fee_q)

Next ==
  \/ \E p, q \in Players, fee_p, fee_q \in {0, Fee} : Settle(p, q, fee_p, fee_q)
  \/ \E p \in Players, t \in Tokens, n \in Amounts : Credit(p, t, n)
  \/ \E p \in Players, t \in Tokens, n \in Amounts : Debit(p, t, n)
  \/ \E p, q \in Players, t \in Tokens, n \in Amounts : Move(p, q, t, n)

Spec == Init /\ [][Next]_bank_vars

\* What a bank keeps: it never holds more of a token than was credited, and
\* never less of one that its numbers can count.
Sound ==
  \A t \in Tokens :
    /\ Total(t) <= credited[t]
    /\ credited[t] <= Capacity => Total(t) = credited[t]
=============================================================================
