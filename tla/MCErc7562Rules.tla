--------------------------- MODULE MCErc7562Rules ---------------------------
(* A small instance of Erc7562Rules for TLC. *)
EXTENDS Erc7562Rules

\* A frame that did nothing.
MCQuiet ==
  [opcodes |-> {}, outOfGas |-> FALSE, contractSize |-> {},
   method |-> "depositTo", extCode |-> {}, value |-> 0, slots |-> {},
   quiet |-> TRUE]

MCLoud == [MCQuiet EXCEPT !.quiet = FALSE]

MCSlots(slots) == {[MCLoud EXCEPT !.slots = {[slot |-> n, write |-> w]}] :
                     n \in slots, w \in BOOLEAN}

\* One frame of each kind a rule looks at, and slots on both sides of the
\* boundaries: 5000 and 6000 are hashes of the sender's and the paymaster's.
MCObservations ==
  {MCQuiet} \cup
  {[MCLoud EXCEPT !.opcodes = {"banned"}],
   [MCLoud EXCEPT !.opcodes = {"onlyStaked"}],
   [MCLoud EXCEPT !.outOfGas = TRUE],
   [MCLoud EXCEPT !.method = "other"],
   [MCLoud EXCEPT !.extCode = {EntryPoint}],
   [MCLoud EXCEPT !.value = 1],
   [MCLoud EXCEPT !.contractSize = {[address |-> 9, size |-> 0]}],
   [MCLoud EXCEPT !.contractSize = {[address |-> 10, size |-> 0]}],
   [MCLoud EXCEPT !.contractSize = {[address |-> Other, size |-> 2]}],
   [MCLoud EXCEPT !.contractSize = {[address |-> Sender, size |-> 0]}]}
  \cup MCSlots({7, 5127, 5128, 6000})

MCStakeInfos == {[stake |-> 0, unstakeDelaySec |-> 0],
                 [stake |-> 1, unstakeDelaySec |-> 1]}

MCKeccakInputs == {[prefix |-> Sender, hash |-> 5000],
                   [prefix |-> Paymaster, hash |-> 6000]}
=============================================================================
