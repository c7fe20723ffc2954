------------------------------ MODULE Finalize ------------------------------
(***************************************************************************)
(* What patch-uld-elf.py's finalize step promises, without its loops: one  *)
(* run over a linked firmware image either finalizes it in a single step   *)
(* (the image of PatchData's ExpectedImgOf, every entry crc and the table   *)
(* crc of that image), or it stops with an exception, leaving every word   *)
(* linked or finalized, the table crc as it was, and only such entry crcs  *)
(* rewritten as are the crcs of their fully finalized entries.  Either way *)
(* the run ends.                                                           *)
(***************************************************************************)
EXTENDS Integers, Sequences, SequencesExt, PatchData

VARIABLES
    elf,        \* entry -> the module file its bytes came from
    img,        \* firmware words of the embedded modules
    crcField,   \* entry -> its crc field in the table
    pstoreCrc,  \* the fs_table crc in the pstore section
    status      \* "running", "done" or "failed"

vars == <<elf, img, crcField, pstoreCrc, status>>

Init ==
    /\ elf \in [Entries -> DOMAIN ElfFiles]
    /\ img = Embedded(elf)
    /\ crcField = CrcsOf(img)
    /\ pstoreCrc = Crc32(<<>>)
    /\ status = "running"

\* patch_uld_elf returns: the image and all its checksums are finalized.
Succeed(final) ==
    /\ status = "running" /\ status' = "done"
    /\ img' = final
    /\ crcField' = CrcsOf(final)
    /\ pstoreCrc' = Crc32(TableBytes(CrcsOf(final)))
    /\ UNCHANGED elf

\* An exception ends the run part way: no word is left half-way between
\* its linked and its final value, an entry crc is either untouched or the
\* crc of the entry's finalized bytes, and the table crc is untouched.
Abort(final) ==
    /\ status = "running" /\ status' = "failed"
    /\ DOMAIN img' = DOMAIN img
    /\ \A w \in DOMAIN img : img'[w] \in {img[w], final[w]}
    /\ \A j \in Entries :
          \/ crcField'[j] = crcField[j]
          \/ /\ Region(img', j) = Region(final, j)
             /\ crcField'[j] = Crc32(Region(final, j))
    /\ UNCHANGED <<elf, pstoreCrc>>

\* final: the image ExpectedImgOf gives for the files the entries came from.
Next == LET final == ExpectedImgOf(elf) IN Succeed(final) \/ Abort(final)

SafeSpec == Init /\ [][Next]_vars

\* A finalize run is a program that runs to its end: it cannot stop forever
\* while it still has a step to take.
Spec == SafeSpec /\ WF_vars(Next)

=============================================================================
