----------------------------- MODULE MC_Patcher -----------------------------
(***************************************************************************)
(* Model values for Patcher.  A module ELF file is laid out as an FDPIC    *)
(* module linked at 0: an 8-byte file header, then                         *)
(*   .text 0..7, .data 8..11, two GOT slots 12..15 and 16..19,             *)
(*   .plt 20..59 (two 20-byte entries), .rofixup 60.., a non-ALLOC         *)
(*   .comment, and a NOBITS section (.bss or another name) at 76..83,      *)
(* each at file offset lma + 8.  What varies between modules:              *)
(*   - its fixups: up to two of the words .text+0 and .data+0, each        *)
(*     holding a pointer into .text (2), .data (8) or the NOBITS one (80); *)
(*   - its PLT/GOT shape: no .plt; .got below .got.plt; only .got.plt      *)
(*     (the slot at 12 then belongs to no section); .got above .got.plt.   *)
(* The firmware holds NumModules such modules, each padded to 80 bytes,    *)
(* in .files, at file offset lma + 16.                                     *)
(***************************************************************************)
EXTENDS Patcher

CONSTANT NumModules

Sec(name, size, lma) == Listing(name, size, lma, lma, lma + 8, TRUE, "PROGBITS")

\* Fixup lists of distinct addresses (the linker lists a word once), in a
\* fixed order: none, the six single fixups, the 18 pairs.
FixPairs == <<<<0, 2>>, <<0, 8>>, <<0, 80>>, <<8, 2>>, <<8, 8>>, <<8, 80>>>>
FixLists ==
    <<<<>>>> \o [i \in 1..6 |-> <<FixPairs[i]>>]
    \o SelectSeq([i \in 1..36 |-> <<FixPairs[(i - 1) \div 6 + 1], FixPairs[((i - 1) % 6) + 1]>>],
                 LAMBDA p : p[1][1] # p[2][1])
PltKinds == <<"none", "got_below", "gotplt_only", "got_above">>

GotSlots(kind) ==
    CASE kind \in {"none", "got_below"} -> <<Sec(".got", 4, 12), Sec(".got.plt", 4, 16)>>
      [] kind = "gotplt_only"           -> <<Sec(".got.plt", 4, 16)>>
      [] kind = "got_above"             -> <<Sec(".got.plt", 4, 12), Sec(".got", 4, 16)>>

ModListing(c) ==
    LET n == Len(c.fix) IN
    <<Sec(".text", 8, 0), Sec(".data", 4, 8)>> \o GotSlots(c.plt)
    \o (IF c.plt = "none" THEN <<>> ELSE <<Sec(".plt", 40, 20)>>)
    \o <<Sec(".rofixup", 4 * n, 60),
         Listing(".comment", 4, 0, 0, 68 + 4 * n, FALSE, "PROGBITS"),
         Listing(c.bss, 8, 76, 76, 84, TRUE, "NOBITS")>>

\* The value a fixup gives the word at lma a, or dflt.
FixVal(c, a, dflt) ==
    IF \E i \in 1..Len(c.fix) : c.fix[i][1] = a
    THEN (CHOOSE p \in Range(c.fix) : p[1] = a)[2] ELSE dflt

ModWords(c) ==
    LET n == Len(c.fix) IN
    [o \in {4 * i : i \in 0..(17 + n)} |->
        CASE o \in {0, 4}   -> 1
          [] o = 8          -> FixVal(c, 0, 3)
          [] o = 12         -> 3
          [] o = 16         -> FixVal(c, 8, 5)
          [] o = 44         -> 8      \* GOTOFFFUNCDESC of .plt entry 1
          [] o = 64         -> 0      \* GOTOFFFUNCDESC of .plt entry 2
          [] o \in 68..(67 + 4 * n) -> c.fix[(o - 68) \div 4 + 1][1]
          [] o = 68 + 4 * n -> 9      \* .comment
          [] OTHER          -> 0]

\* File id -> file: every fixup list of lists with every PLT/GOT shape and
\* every name of bss (the module's NOBITS section).
ElfFilesOf(lists, bss) ==
    LET n == Len(lists) * Len(PltKinds) IN
    [id \in 1..(n * Len(bss)) |->
        LET i == (id - 1) % n
            c == [fix |-> lists[i \div Len(PltKinds) + 1],
                  plt |-> PltKinds[(i % Len(PltKinds)) + 1],
                  bss |-> bss[(id - 1) \div n + 1]]
        IN  [listing |-> ModListing(c), words |-> ModWords(c)]]

MC_ElfFiles == ElfFilesOf(FixLists, <<".bss">>)

\* The same modules, and each again with its NOBITS section named .noinit,
\* a name outside ROFIXUP_MEM_SEC_LIST.
MC_ElfFilesNoinit == ElfFilesOf(FixLists, <<".bss", ".noinit">>)

\* The modules with a NOBITS section of a 19-character name, which readelf
\* -S prints cut short.
MC_ElfFilesLongNobits == ElfFilesOf(FixLists, <<".noinit.uld_buffers">>)

FwSec(name, size, lma) == Listing(name, size, lma, lma, lma + 16, TRUE, "PROGBITS")

MC_UldListing ==
    <<FwSec(".text", 64, 0), FwSec(".files", 80 * NumModules, 64),
      FwSec(".fs_table", 48, 64 + 80 * NumModules),
      FwSec(".uld_pdata", 32, 112 + 80 * NumModules)>>

MC_FsTable ==
    [j \in 1..NumModules |->
        [name |-> j, file_base |-> 64 + 80 * (j - 1), size |-> 80,
         e_file_off |-> 80 + 80 * NumModules + 24 * (j - 1)]]


\* Search directories.  Nowhere has no module; a build directory holds
\* the very files that were embedded (e).
Nowhere == [j \in 1..NumModules |-> NoFile]

\* The build directory given with --elf-search-path, searched before the
\* firmware's own directory, which holds no module.
MC_SearchDirs(e) == {[args |-> <<e>>, uldDir |-> Nowhere]}

\* Every way the modules may be found or missed: no --elf-search-path, an
\* empty one or the build directory, and a firmware directory with or
\* without the modules.
MC_SearchDirsAll(e) ==
    {[args |-> a, uldDir |-> u] : a \in {<<>>, <<Nowhere>>, <<e>>}, u \in {e, Nowhere}}

\* A --elf-search-path directory holding some build of each module (an
\* older one, or another with the same name) before the build directory.
MC_SearchDirsStale(e) ==
    {[args |-> <<s, e>>, uldDir |-> Nowhere] : s \in [1..NumModules -> DOMAIN MC_ElfFiles]}

=============================================================================
