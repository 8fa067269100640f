------------------------------ MODULE MCMempool ------------------------------
(* Small instances of Mempool for TLC: the addresses and the operations that  *)
(* the configurations choose from.                                            *)
EXTENDS Mempool

\* "A" and "P" are the checksummed spellings of "a" and of the paymaster "p".
MCAddress == {"a", "A", "p"}
TwoAddresses == {"a", "p"}
TwoSpellings == {"a", "p", "P"}
MCLower == [x \in Address |-> CASE x = "A" -> "a" [] x = "P" -> "p" [] OTHER -> x]

\* Operations by name.  a1, then a1x replacing it (spelled "A", 10% dearer);
\* a2 and a3 fill the sender's cap; p1 is sent by the account that is the
\* paymaster of the others; a3p replaces a3 and adds the paymaster.
MCSender == [o \in Op |-> CASE o = "a1x" /\ "A" \in Address -> "A" [] o = "p1" -> "p" [] OTHER -> "a"]
MCNonce == [o \in Op |-> CASE o = "a2" -> 2 [] o \in {"a3", "a3p"} -> 3 [] o = "a4" -> 4 [] o = "a5" -> 5
                           [] OTHER -> 1]
MCPaymaster == [o \in Op |-> CASE o = "a2" /\ "P" \in Address -> "P"
                               [] o \in {"a1", "a1x", "a2", "a3p"} -> "p"
                               [] OTHER -> NoAddress]
NoEntity == [o \in Op |-> NoAddress]
MCFee == [o \in Op |-> CASE o \in {"a1x", "a3p"} -> 11 [] OTHER -> 10]
\* Fees beyond what nine bits hold exactly: 1099 passes for 10% above 1001.
MCMaxFee == [o \in Op |-> CASE o \in {"a1x", "a3p"} -> 1099 [] OTHER -> 1001]

\* Floats of nine bits.  1.1 is 282/256 there, a little above 1.1 as in a
\* double, so that 11 replaces 10 but 55 does not replace 50.
Ulp(x) == CHOOSE u \in {2^k : k \in 0..20} : x < 512 * u /\ (u = 1 \/ x >= 256 * u)
Rounded(x) ==
  LET u == Ulp(x)
      q == x \div u
      r == x % u
  IN  u * IF 2 * r > u \/ (2 * r = u /\ q % 2 = 1) THEN q + 1 ELSE q
Tenth(x) == (Rounded(282 * Rounded(x)) + 255) \div 256

UnitCost == [o \in Op |-> 1]
\* a1 costs the paymaster two units, every other operation one.
UnevenCost == [o \in Op |-> IF o = "a1" THEN 2 ELSE 1]
MCDeposit == [x \in Address |-> 2]
==============================================================================
