----------------------------- MODULE MCBlockBuild -----------------------------
(***************************************************************************)
(* Instances of BlockBuild for TLC: the environments its blocks are built  *)
(* in.                                                                     *)
(***************************************************************************)
EXTENDS BlockBuild

\* SHIP shows every action, or leaves some out.
AllShown == {"full", "noReceipt"}
SomeMissing == {"full", "noReceipt", "missing"}
AnyShown == {AllShown, SomeMissing}
FullOrMissing == {{"full", "missing"}}

\* The reference answers about whole blocks, or it does not always.
BlocksAnswer == {"receiptNull", "address"}
AnyFails == {"receiptNull", "receiptFails", "rawFails", "address", "hashFails", "blockFails",
             "configRow"}
FaultChoices == {BlocksAnswer, AnyFails, {"rawNull"}}
NoFaults == {{}}
===============================================================================
