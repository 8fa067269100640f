--------------------------- MODULE MCBundleBuilder ---------------------------
(* Small instances of BundleBuilder for TLC.                                 *)
EXTENDS BundleBuilder

\* "A" and "F" are other spellings of "a" and "f"; "f" is a factory, "p" a
\* paymaster.
MCLower == [x \in Address |-> CASE x = "A" -> "a" [] x = "F" -> "f" [] OTHER -> x]
Nobody == [o \in Op |-> NoAddress]

\* "a.." is sent by a, "b.." by b, "c.." by c; A1 is a's, spelled otherwise.
MCSender == [o \in Op |-> CASE o \in {"a1", "a2", "ap"} -> "a" [] o = "A1" -> "A"
                           [] o \in {"b1", "b2", "bp"} -> "b" [] OTHER -> "c"]
MCFactory == [o \in Op |-> CASE o \in {"a1", "b1", "cf"} -> "f"
                            [] o = "a2" -> "F" [] OTHER -> NoAddress]
SharedFactory == [o \in Op |-> IF o \in {"b2", "c1"} THEN "f" ELSE NoAddress]
TwoSpellings == [o \in Op |-> CASE o = "a1" -> "f" [] o = "b1" -> "F" [] OTHER -> NoAddress]
MCPaymaster == [o \in Op |-> IF o \in {"ap", "bp", "cp", "cf", "c1"} THEN "p" ELSE NoAddress]
AllPaid == [o \in Op |-> "p"]
AllFactory == [o \in Op |-> IF o = "cp" THEN NoAddress ELSE "f"]

\* a2 and b2 disagree about the delegate of their signer s.
MCSigner == [o \in Op |-> IF o \in {"cp", "c1"} THEN NoAddress ELSE "s"]
MCDelegate == [o \in Op |-> CASE o \in {"cp", "c1"} -> NoAddress [] o = "a2" -> "d" [] OTHER -> "e"]

MCGas == [o \in Op |-> IF o = "a2" THEN 2 ELSE 1]
TightGas == [o \in Op |-> IF o = "b2" THEN 1 ELSE 2]
UnitPrefund == [o \in Op |-> 1]
\* c1 reads the storage of the account b.
MCTouches == [o \in Op |-> IF o = "c1" THEN {"b"} ELSE {}]
TouchesNone == [o \in Op |-> {}]
MCRichDeposit == [x \in Address |-> 3]
MCDeposit == [x \in Address |-> 1]
SeenNever == [x \in Address |-> 0]
SeenFactory == [x \in Address |-> IF x = "f" THEN 2 ELSE 0]
SeenPaymaster == [x \in Address |-> IF x = "p" THEN 2 ELSE 0]
===============================================================================
