------------------------------ MODULE PatchData ------------------------------
(***************************************************************************)
(* The inputs of patch-uld-elf.py's finalize step and the reads it makes   *)
(* of them, shared by the detailed model (Patcher) and the abstract one    *)
(* (Finalize): the firmware's section listing, the parsed file table, the  *)
(* module ELF files the search path may hold, and the view of the firmware *)
(* bytes as 32-bit words keyed by file offset.                             *)
(***************************************************************************)
EXTENDS Integers, Sequences, SequencesExt, SectionModel

CONSTANTS
    UldListing,   \* section listing of the firmware image (uld_path)
    FsTable,      \* parse_fs_table's result: <<[name, file_base, size, e_file_off]>>
    ElfFiles,     \* id -> a module ELF file the search path may hold: [listing, words]
    MaxRuns,      \* how many times the finalize step is run on the image
    SearchDirs(_), \* given the files embedded per entry, the directories a
                  \* run may be given: [args: <<dir, ...>> (--elf-search-path),
                  \* uldDir: dir (uld_path's directory)]; a dir maps an entry
                  \* to the file of its name there, or NoFile
    WordBits      \* width of a packed word ('<I': 32; smaller in a model)

ASSUME MaxRuns \in Nat \ {0} /\ WordBits \in 1..30

Entries == 1..Len(FsTable)

NoFile == 0   \* no file of that name in a directory (file ids start at 1)

\* elf_search_path: the --elf-search-path directories, then uld_path's.
ElfSearchPath(args, uldDir) == args \o <<uldDir>>

\* find_elf_file: the file of entry j's name in the first directory that
\* has one (os.path.exists), NoFile when none has (the ValueError).
FindElfFile(searchPath, j) ==
    LET i == SelectInSeq(searchPath, LAMBDA dir : dir[j] # NoFile)
    IN  IF i = 0 THEN NoFile ELSE searchPath[i][j]

\* Sections whose words the loader fills at runtime (ROFIXUP_MEM_SEC_LIST).
ROFIXUP_MEM_SEC_LIST == {".got", ".got.plt", ".data", ".bss"}
PLT_ENTRY_SIZE == 20
PLT_ENTRY_GOTOFFFUNCDESC_OFFSET == 16
WordLimit == 2^WordBits   \* struct.pack('<I', v) needs 0 <= v < 2^32

UldSecs == ElfSections(UldListing)

\* zlib.crc32 of a byte range, abstracted as a checksum without collisions.
Crc32(data) == [crc32_of |-> data]

\* elf_file_off: where the entry's module starts in the firmware file.
ElfFileOff == [j \in Entries |-> LmaToFileOff(UldSecs, FsTable[j].file_base)]

\* The fse.size bytes write_elf_file_crc reads for entry j.
Region(image, j) ==
    [i \in 0..(FsTable[j].size \div 4 - 1) |-> image[ElfFileOff[j] + 4 * i]]

\* The bytes write_fs_table_crc reads: the table with its crc fields.
TableBytes(crcs) == <<FsTable, crcs>>

\* get_elf_sections of every module file, computed once per file.
SecsOf == [f \in DOMAIN ElfFiles |-> ElfSections(ElfFiles[f].listing)]

\* The .rofixup words of a module file (extract_sec and the unpack loop).
Fixups(f) ==
    LET secs == SecsOf[f]
        s    == secs[NameToSec(secs, ".rofixup")]
    IN  [i \in 1..(s.file_size \div 4) |-> ElfFiles[f].words[s.file_off + 4 * (i - 1)]]

FixupsOf == [f \in DOMAIN ElfFiles |->
                IF HasSection(SecsOf[f], ".rofixup") THEN Fixups(f) ELSE <<>>]

\* The firmware words the table's entries cover, and the entry of each.
ImgWords == UNION {{ElfFileOff[j] + 4 * i : i \in 0..(FsTable[j].size \div 4 - 1)}
                   : j \in Entries}
EntryAt == [w \in ImgWords |->
               CHOOSE e \in Entries : w - ElfFileOff[e] \in 0..(FsTable[e].size - 1)]

\* Word o of module file f, zero past its end.
FileWord(f, o) == IF o \in DOMAIN ElfFiles[f].words THEN ElfFiles[f].words[o] ELSE 0

\* Offsets of the words of entry j's module, and the words module file f
\* puts there padded with zeros; computed once per entry and file.
EntryOffs(j) == {4 * i : i \in 0..(FsTable[j].size \div 4 - 1)}
LinkedWords == [j \in Entries |-> [f \in DOMAIN ElfFiles |->
                   [o \in EntryOffs(j) |-> FileWord(f, o)]]]

\* The firmware's copy of every module: the module file padded with zeros.
Embedded(files) ==
    [w \in ImgWords |-> LinkedWords[EntryAt[w]][files[EntryAt[w]]][w - ElfFileOff[EntryAt[w]]]]

(***************************************************************************)
(* patch_plt_gotofffuncdesc's picreg_offset: .got.plt's lma minus .got's   *)
(* lma, 0 without a .got.                                                  *)
(***************************************************************************)
\* Mutant: the difference taken the other way round.
PicregOffsetSwapped(es) ==
    IF NameToSec(es, ".got") = 0 THEN 0
    ELSE es[NameToSec(es, ".got")].lma - es[NameToSec(es, ".got.plt")].lma

PicregOffset(es) ==
    IF NameToSec(es, ".got") = 0 THEN 0
    ELSE es[NameToSec(es, ".got.plt")].lma - es[NameToSec(es, ".got")].lma

(***************************************************************************)
(* What the finalize step is for (spec 4.5-4.7), stated without the code's *)
(* loop, for the module files e the table's entries were found in: in the  *)
(* image as linked, every fixup word whose value lies in a section with    *)
(* file content outside ROFIXUP_MEM_SEC_LIST is rebased to the module's    *)
(* load address, every GOTOFFFUNCDESC word of a .plt is moved by the       *)
(* distance from .got to .got.plt, and every checksum is of the result.    *)
(***************************************************************************)

\* File offsets, within module file f, of the words its fixups rebase.
RebasedWords(f) ==
    LET es == SecsOf[f] IN
    IF ~HasSection(es, ".rofixup") THEN {}
    ELSE { LmaToFileOff(es, a) : a \in { a \in Range(FixupsOf[f]) :
              /\ LmaToSec(es, a) # 0
              /\ LmaToSec(es, ElfFiles[f].words[LmaToFileOff(es, a)]) # 0
              /\ es[LmaToSec(es, ElfFiles[f].words[LmaToFileOff(es, a)])].name
                   \notin ROFIXUP_MEM_SEC_LIST } }

\* File offsets, within module file f, of its GOTOFFFUNCDESC words.
DescWords(f) ==
    LET es == SecsOf[f] IN
    IF ~HasSection(es, ".plt") THEN {}
    ELSE LET plt == es[NameToSec(es, ".plt")] IN
         { plt.file_off + PLT_ENTRY_GOTOFFFUNCDESC_OFFSET + PLT_ENTRY_SIZE * i :
             i \in 0..(plt.size \div PLT_ENTRY_SIZE - 1) }

\* Spec 4.6: the distance a descriptor offset moves (0 without a .got).
DescShift(es) ==
    IF ~HasSection(es, ".got") THEN 0
    ELSE es[NameToSec(es, ".got.plt")].lma - es[NameToSec(es, ".got")].lma

\* Word o of module file f as it should end up when loaded at base.
FinalWord(f, base, o) ==
    LET es == SecsOf[f] IN
    CASE o \in RebasedWords(f) -> LmaToFileOff(es, ElfFiles[f].words[o]) + base
      [] o \in DescWords(f) /\ HasSection(es, ".got.plt") ->
           ElfFiles[f].words[o] + DescShift(es)
      [] OTHER -> FileWord(f, o)

\* Computed once per file and entry (the file's load address is the entry's).
FinalWords == [j \in Entries |-> [f \in DOMAIN ElfFiles |->
                  [o \in EntryOffs(j) |-> FinalWord(f, FsTable[j].file_base, o)]]]

ExpectedImgOf(e) ==
    LET fw == [j \in Entries |-> FinalWords[j][e[j]]] IN
    [w \in ImgWords |-> fw[EntryAt[w]][w - ElfFileOff[EntryAt[w]]]]

\* The entry crcs of an image.
CrcsOf(image) == [j \in Entries |-> Crc32(Region(image, j))]

ExpectedCrcOf(e) == CrcsOf(ExpectedImgOf(e))

=============================================================================
