----------------------------- MODULE MCFillJobs -----------------------------
(* Instances of FillJobs.  Addresses a and b, one topic position: the       *)
(* selector {a, b} covers {a}, and coverage of {a} is half of its own.      *)
EXTENDS FillJobs, TLC

CONSTANTS a, b, t, w1, w2

MCAddress == {a, b}
MCTopic == {t}
MCPositions == {0}
MCWorker == {w1, w2}

Logs(addresses) ==
  [dataset |-> "evm.logs",
   selector |-> [addresses |-> addresses, topics |-> [p \in MCPositions |-> AnyTopic]]]

MCSelectorTable == [A |-> Logs({a}), AB |-> Logs({a, b})]

LogRow(n, address) ==
  [dataset |-> "evm.logs", block |-> n,
   key |-> [address |-> address, topics |-> [p \in MCPositions |-> t]]]

MCRow == {LogRow(1, a), LogRow(1, b), LogRow(2, b)}

PairIds == {"A", "AB"}
SingleIds == {"A"}

Table(ids) == [s \in ids |-> MCSelectorTable[s]]
PairTable == Table(PairIds)
SingleTable == Table(SingleIds)

QueryOnly == {"query"}
BothPurposes == {"query", "backfill"}

OneBlock == {{1}}
TwoBlocks == {{1, 2}}

OneWorker == {w1}

WorkerSymmetry == Permutations(MCWorker)

=============================================================================
