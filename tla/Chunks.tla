------------------------------- MODULE Chunks -------------------------------
(***************************************************************************)
(* How the ERC20 worker splits a range over its parallel requests          *)
(* (src/src/blockchains/erc20/lib/chunk_utils.ts and its two callers).     *)
(***************************************************************************)
EXTENDS Integers

(* Math.ceil(a / b) for b > 0 *)
CeilDiv(a, b) == (a + b - 1) \div b

(* Mutant: the next chunk starts one too late. *)
MutantChunksSkip(start, end, chunkSize) ==
  {[from |-> start + k * (chunkSize + 1),
    to   |-> IF start + k * (chunkSize + 1) + chunkSize - 1 < end
             THEN start + k * (chunkSize + 1) + chunkSize - 1
             ELSE end] :
     k \in {j \in 0..(end - start) : start + j * (chunkSize + 1) <= end}}

(* The k-th turn of the loop is at start + k * chunkSize, while that is not  *)
(* past the end. The chunks are independent requests: their order is left    *)
(* out.                                                                      *)
buildInclusiveChunks(start, end, chunkSize) ==
  {[from |-> start + k * chunkSize,
    to   |-> IF start + k * chunkSize + chunkSize - 1 < end
             THEN start + k * chunkSize + chunkSize - 1
             ELSE end] :
     k \in {j \in 0..(end - start) : start + j * chunkSize <= end}}

(* The callers' choice: at most concurrency chunks of equal size. *)
ParallelChunks(start, end, concurrency) ==
  LET total == end - start + 1
      count == IF concurrency < total THEN concurrency ELSE total
  IN  IF total <= 0 THEN {} ELSE buildInclusiveChunks(start, end, CeilDiv(total, count))

=============================================================================
