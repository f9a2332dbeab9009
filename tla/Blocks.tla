-------------------------------- MODULE Blocks --------------------------------
(***************************************************************************)
(* A file is a sequence of cells, transferred in blocks of BlockSize cells *)
(* into a temporary file that an interrupted transfer leaves behind.       *)
(***************************************************************************)
EXTENDS Integers, Sequences

CONSTANTS
  Cell,       \* the units of file content
  BlockSize,  \* client_block_size / block_size, in cells
  MinSize     \* min_file_size, in cells: up to it a transfer never resumes

ASSUME BlocksAssumption == BlockSize \in Nat \ {0} /\ MinSize \in Nat

Content == Seq(Cell)

Lesser(a, b) == IF a < b THEN a ELSE b

\* The content of a file after TFile::write of data at position p.
WriteAt(file, p, data) ==
  [i \in 1..(IF p + Len(data) > Len(file) THEN p + Len(data) ELSE Len(file)) |->
     IF i > p /\ i <= p + Len(data) THEN data[i - p] ELSE file[i]]

\* The block from which a transfer into an existing file resumes.
StartBlock(file) == IF Len(file) > MinSize THEN Len(file) \div BlockSize ELSE 0
===============================================================================
