------------------------------ MODULE Patcher ------------------------------
(***************************************************************************)
(* The finalize step of patch-uld-elf.py (patch_uld_elf): for every entry  *)
(* of the already parsed file table, in table order, open the module ELF   *)
(* found in the search path, apply its read-only fixups to the firmware    *)
(* image (apply_rofixups), correct the GOTOFFFUNCDESC words of its .plt    *)
(* (patch_plt_gotofffuncdesc), and rewrite the entry's crc field           *)
(* (write_elf_file_crc); at last rewrite the table crc in the pstore       *)
(* section (write_fs_table_crc).  The image is mutated in place, word by   *)
(* word; a failure ends the run and leaves the image as it is, and the     *)
(* finalize step may then be run again on that image (bounded by MaxRuns). *)
(*                                                                         *)
(* Data abstraction: the firmware bytes of the embedded modules are a      *)
(* function from file offset to 32-bit word (every access of the code is a *)
(* 4-byte word); the table's crc fields and the pstore crc are variables   *)
(* of their own; zlib.crc32 is a collision-free checksum (Crc32, PatchData). *)
(***************************************************************************)
EXTENDS Integers, Sequences, SequencesExt, PatchData

VARIABLES
    elf,        \* entry -> the module file its embedded bytes were copied from
    elfSearchPath, \* elf_search_path: the directories searched, in order
    elfPath,    \* entry -> the file find_elf_file found (NoFile: not yet)
    img,        \* firmware words of the embedded modules
    crcField,   \* entry -> its crc field in the table
    pstoreCrc,  \* the fs_table crc in the pstore section
    pc,         \* [stage, j: current entry, k: current fixup]
    skip,       \* apply_rofixups' local skip: "unbound", "yes" or "no"
    status,     \* "running", "done" or "failed"
    err,        \* the exception that ended a failed run
    runs        \* finalize runs started so far

vars == <<elf, elfSearchPath, elfPath, img, crcField, pstoreCrc, pc, skip, status, err, runs>>

Fail(e) == /\ status' = "failed" /\ err' = e
           /\ UNCHANGED <<elf, elfSearchPath, elfPath, img, crcField, pstoreCrc, pc, skip, runs>>

Goto(stage, j, k) == pc' = [stage |-> stage, j |-> j, k |-> k]

\* Stage entered after entry j is done: the next entry, or the table crc.
AfterEntry(j) == IF j < Len(FsTable) THEN [stage |-> "open", j |-> j + 1, k |-> 0]
                 ELSE [stage |-> "table", j |-> j, k |-> 0]

Init ==
    /\ elf \in [Entries -> DOMAIN ElfFiles]
    /\ elfSearchPath \in {ElfSearchPath(d.args, d.uldDir) : d \in SearchDirs(elf)}
    /\ elfPath = [j \in Entries |-> NoFile]
    /\ img = Embedded(elf)
    /\ crcField = [j \in Entries |-> Crc32(Region(img, j))]
    /\ pstoreCrc = Crc32(<<>>)
    /\ pc = IF Entries = {} THEN [stage |-> "table", j |-> 0, k |-> 0]
            ELSE [stage |-> "open", j |-> 1, k |-> 0]
    /\ skip = "unbound"
    /\ status = "running"
    /\ err = "none"
    /\ runs = 1

(***************************************************************************)
(* The loop body's head (patch_uld_elf): find_elf_file for the entry's     *)
(* name, which raises ValueError when no directory has it; then            *)
(* apply_rofixups' entry: return at once when the module has no .rofixup,  *)
(* otherwise start the loop with the local skip not yet assigned.          *)
(***************************************************************************)
StartRofixups ==
    LET f  == FindElfFile(elfSearchPath, pc.j)
        es == SecsOf[f]
    IN
    /\ status = "running" /\ pc.stage = "open"
    /\ IF f = NoFile THEN Fail("ValueError:not found")
       ELSE /\ elfPath' = [elfPath EXCEPT ![pc.j] = f]
            /\ IF HasSection(es, ".rofixup") /\ FixupsOf[f] # <<>>
               THEN Goto("fixup", pc.j, 1)
               ELSE Goto("plt", pc.j, 0)
            /\ skip' = "unbound"
            /\ UNCHANGED <<elf, elfSearchPath, img, crcField, pstoreCrc, status, err, runs>>

\* Mutant: the ROFIXUP_MEM_SEC_LIST test dropped.
RofixupSkippedNoMem(es, vsec) == vsec = 0

\* The value's section is runtime-filled or absent: the fixup is skipped.
RofixupSkipped(es, vsec) == vsec = 0 \/ es[vsec].name \in ROFIXUP_MEM_SEC_LIST

\* The firmware's word still holds what the module file holds there.
Consistent(imgWord, value) == imgWord = value

(***************************************************************************)
(* One iteration of the fixup loop of apply_rofixups (lines 286-349).      *)
(***************************************************************************)
ApplyRofixup ==
    LET j     == pc.j
        f     == elfPath[j]
        es    == SecsOf[f]
        fx    == FixupsOf[f]
        addr  == fx[pc.k]
        foff  == LmaToFileOff(es, addr)
        value == ElfFiles[f].words[foff]
        vsec  == LmaToSec(es, value)
        skipNow == RofixupSkipped(es, vsec)
        w     == ElfFileOff[j] + foff
        next  == IF pc.k < Len(fx) THEN [pc EXCEPT !.k = @ + 1]
                 ELSE [stage |-> "plt", j |-> j, k |-> 0]
    IN
    /\ status = "running" /\ pc.stage = "fixup"
    /\ CASE LmaToSec(es, addr) = 0 -> Fail("LookupFailure:addr")
         [] vsec = 0 /\ skip = "unbound" -> Fail("UnboundLocalError")
         [] vsec = 0 /\ skip = "no" -> Fail("LookupFailure:value")
         [] skipNow ->
              /\ skip' = "yes" /\ pc' = next
              /\ UNCHANGED <<elf, elfSearchPath, elfPath, img, crcField, pstoreCrc, status, err, runs>>
         [] ~Consistent(img[w], value) -> Fail("ConsistencyFailure")
         [] OTHER ->
              /\ img' = [img EXCEPT ![w] = LmaToFileOff(es, value) + FsTable[j].file_base]
              /\ skip' = "no" /\ pc' = next
              /\ UNCHANGED <<elf, elfSearchPath, elfPath, crcField, pstoreCrc, status, err, runs>>

(***************************************************************************)
(* patch_plt_gotofffuncdesc: with a .plt, a .got.plt must exist; when a    *)
(* .got exists too, add .got.plt's lma minus .got's lma to the             *)
(* GOTOFFFUNCDESC word of every 20-byte .plt entry, entry by entry.        *)
(* struct.pack rejects a sum outside 0..2^32-1 and ends the run with the   *)
(* earlier entries already rewritten.                                      *)
(***************************************************************************)
\* struct.pack('<I', v) accepts v.
Packable(v) == v \in 0..(WordLimit - 1)

PatchPlt ==
    LET j   == pc.j
        es  == SecsOf[elfPath[j]]
        plt == es[NameToSec(es, ".plt")]
        off == PicregOffset(es)
        vw  == [i \in 1..(plt.size \div PLT_ENTRY_SIZE) |->
                  ElfFileOff[j] + LmaToFileOff(es, plt.lma)
                  + PLT_ENTRY_GOTOFFFUNCDESC_OFFSET + PLT_ENTRY_SIZE * (i - 1)]
        bad == SelectInSeq(vw, LAMBDA w : ~Packable(img[w] + off))
        done == IF bad = 0 THEN Len(vw) ELSE bad - 1
        img2 == [w \in DOMAIN img |->
                   IF \E i \in 1..done : vw[i] = w THEN img[w] + off ELSE img[w]]
    IN
    /\ status = "running" /\ pc.stage = "plt"
    /\ CASE ~HasSection(es, ".plt") \/ (HasSection(es, ".got.plt") /\ off = 0) ->
              /\ Goto("crc", j, 0)
              /\ UNCHANGED <<elf, elfSearchPath, elfPath, img, crcField, pstoreCrc, skip, status, err, runs>>
         [] ~HasSection(es, ".got.plt") -> Fail("ValidationFailure")
         [] plt.size % PLT_ENTRY_SIZE # 0 -> Fail("ValidationFailure")
         [] LmaToSec(es, plt.lma) = 0 -> Fail("LookupFailure:plt")
         [] bad # 0 ->
              /\ img' = img2 /\ status' = "failed" /\ err' = "StructError"
              /\ UNCHANGED <<elf, elfSearchPath, elfPath, crcField, pstoreCrc, pc, skip, runs>>
         [] OTHER ->
              /\ img' = img2 /\ Goto("crc", j, 0)
              /\ UNCHANGED <<elf, elfSearchPath, elfPath, crcField, pstoreCrc, skip, status, err, runs>>

(***************************************************************************)
(* write_elf_file_crc: checksum the entry's fse.size bytes as they are now *)
(* and store it in the entry's crc field; then the next entry.             *)
(***************************************************************************)
\* Mutant: the crc taken over the module file rather than the firmware.
WriteElfFileCrcFromModule ==
    /\ status = "running" /\ pc.stage = "crc"
    /\ crcField' = [crcField EXCEPT ![pc.j] = Crc32(Region(Embedded(elf), pc.j))]
    /\ pc' = AfterEntry(pc.j)
    /\ UNCHANGED <<elf, elfSearchPath, elfPath, img, pstoreCrc, skip, status, err, runs>>

WriteElfFileCrc ==
    /\ status = "running" /\ pc.stage = "crc"
    /\ crcField' = [crcField EXCEPT ![pc.j] = Crc32(Region(img, pc.j))]
    /\ pc' = AfterEntry(pc.j)
    /\ UNCHANGED <<elf, elfSearchPath, elfPath, img, pstoreCrc, skip, status, err, runs>>

(***************************************************************************)
(* write_fs_table_crc after the loop: checksum the table, crc fields       *)
(* included, into the pstore; the run is over.                             *)
(***************************************************************************)
WriteFsTableCrc ==
    /\ status = "running" /\ pc.stage = "table"
    /\ pstoreCrc' = Crc32(TableBytes(crcField))
    /\ status' = "done"
    /\ UNCHANGED <<elf, elfSearchPath, elfPath, img, crcField, pc, skip, err, runs>>

(***************************************************************************)
(* The finalize step is run again on the image as the last run left it.    *)
(* Nothing in the code records that an image was already patched.         *)
(***************************************************************************)
Rerun ==
    /\ status \in {"done", "failed"} /\ runs < MaxRuns
    /\ runs' = runs + 1
    /\ pc' = IF Entries = {} THEN [stage |-> "table", j |-> 0, k |-> 0]
             ELSE [stage |-> "open", j |-> 1, k |-> 0]
    /\ status' = "running" /\ err' = "none" /\ skip' = "unbound"
    /\ elfPath' = [j \in Entries |-> NoFile]
    /\ UNCHANGED <<elf, elfSearchPath, img, crcField, pstoreCrc>>

\* The run (and every rerun) has ended.
Finished == status \in {"done", "failed"} /\ runs = MaxRuns /\ UNCHANGED vars

Next == StartRofixups \/ ApplyRofixup \/ PatchPlt \/ WriteElfFileCrc
        \/ WriteFsTableCrc \/ Rerun \/ Finished

Spec == Init /\ [][Next]_vars /\ WF_vars(Next)

(***************************************************************************)
(* The intended result (PatchData) for the files this image was built from. *)
(***************************************************************************)
Linked == Embedded(elf)
ExpectedImg == ExpectedImgOf(elf)
ExpectedCrc == ExpectedCrcOf(elf)

\* What the device loader checks: every entry's crc and the table crc match.
Verifies ==
    /\ \A j \in Entries : crcField[j] = Crc32(Region(img, j))
    /\ pstoreCrc = Crc32(TableBytes(crcField))

-----------------------------------------------------------------------------
(***************************************************************************)
(* Refinement mapping onto Finalize, for a single run (MaxRuns = 1): while *)
(* the run is going, the abstract image is still the linked one and every *)
(* step of the loop is a stutter; the step that ends the run (the table    *)
(* crc written, or an exception) is the abstract Succeed or Abort.         *)
(***************************************************************************)
AbsImg == IF status = "running" THEN Linked ELSE img
AbsCrc == IF status = "running" THEN CrcsOf(Linked) ELSE crcField

Abs == INSTANCE Finalize WITH img <- AbsImg, crcField <- AbsCrc

(* patch_uld_elf implements the finalize contract: every step of a run    *)
(* is a stutter until the step that ends it, which either leaves the image *)
(* and all checksums finalized, or raises leaving each word linked or      *)
(* final, the table crc alone and no entry crc over bytes not yet final.   *)
RefinesFinalize == Abs!SafeSpec

-----------------------------------------------------------------------------
(* Once write_elf_file_crc has run for an entry in this run, no later step *)
(* (of the same module or of a later one) changes that entry's bytes: the  *)
(* crc written stays the crc of the module.                                *)
ChecksumsStayCurrent ==
    \A j \in (IF pc.stage = "table" THEN Entries ELSE 1..(pc.j - 1)) :
        crcField[j] = Crc32(Region(img, j))

(* Spec 4.5 and the comment at apply_rofixups: a fixup whose value lies in *)
(* no section with file content (.bss) is left for the runtime loader; it  *)
(* never makes the patcher fail.                                           *)
UnresolvedValueSkipped ==
    status = "failed" => err \notin {"UnboundLocalError", "LookupFailure:value"}

\* Firmware word w is at the address of one of its module's .rofixup words.
IsFixupWord(w) ==
    LET f == elf[EntryAt[w]] IN
    \E a \in Range(FixupsOf[f]) :
        LmaToSec(SecsOf[f], a) # 0
        /\ LmaToFileOff(SecsOf[f], a) = w - ElfFileOff[EntryAt[w]]

(* apply_rofixups rebases from the module file's word, after checking    *)
(* that the firmware still holds it: over any number of finalize runs,    *)
(* ended by success or by any exception, the word at every .rofixup       *)
(* address holds its linked value or its finalized one, never a value     *)
(* rebased twice or rebased when it should have been left to the loader. *)
FixupWordsLinkedOrFinal ==
    \A w \in DOMAIN img : IsFixupWord(w) => img[w] \in {Linked[w], ExpectedImg[w]}

(* The comment at apply_rofixups: a .rofixup word whose value points into *)
(* a NOBITS section (.bss), by the module's own section headers, is left  *)
(* for the runtime loader.  Over any finalize runs, ended by success or   *)
(* any exception, the firmware keeps its linked value.  get_elf_sections  *)
(* learns that a section is NOBITS only through readelf's table, matched  *)
(* by name, and the skip then rests on lma_to_sec failing for the value.  *)
NobitsPointersKept ==
    \A w \in DOMAIN img :
        LET nobits == {s \in Range(ElfFiles[elf[EntryAt[w]]].listing) :
                          s.alloc /\ s.type = "NOBITS"}
        IN  /\ IsFixupWord(w)
            /\ \E s \in nobits : Linked[w] \in s.lma..(s.lma + s.size - 1)
            => img[w] = Linked[w]

(* Whatever sequence of finalize runs the image went through, an image the *)
(* device would accept (all checksums match) is the finalized image.       *)
VerifiedImpliesFinalized == Verifies => img = ExpectedImg

=============================================================================
