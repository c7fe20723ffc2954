---------------------------- MODULE SectionModel ----------------------------
(***************************************************************************)
(* The section geometry of one ELF file, as patch-uld-elf.py derives it    *)
(* (get_elf_sections) and queries it (name_to_sec, file_off_to_sec,        *)
(* lma_to_sec, vma_to_sec, lma_to_file_off).                               *)
(*                                                                         *)
(* The text scraping of objdump/readelf output is abstracted: a listing is *)
(* a sequence of records, one per section header, with the section's own *)
(* sh_type; get_elf_sections learns the type only through readelf -S's     *)
(* table, matched by name (ReadelfType).  Lookups return a position in the *)
(* section list, 0 standing for the ValueError the code raises.            *)
(***************************************************************************)
EXTENDS Integers, Sequences, SequencesExt

\* The objdump/readelf listing of one section (ElfSection.__init__);
\* file_size starts as None, written -1, and is resolved below.
Listing(name, size, vma, lma, off, alloc, type) ==
    [name |-> name, size |-> size, vma |-> vma, lma |-> lma,
     file_off |-> off, alloc |-> alloc, type |-> type, file_size |-> -1]

\* readelf -S without -W prints a name longer than 17 characters cut to its
\* first 12 and "[...]" (binutils' narrow layout), so that line's name never
\* equals the full name objdump -h prints.
ReadelfName(name) == IF Len(name) > 17 THEN SubSeq(name, 1, 12) \o "[...]" ELSE name

\* Mutant: the readelf table never consulted, every type left None.
ReadelfTypeUnjoined(listing, name) == "NONE"

\* The type get_elf_sections gives a section: re_dict maps the name each
\* ALLOC line of readelf -S shows to its type, a later line overwriting an
\* earlier one; re_dict.get(name, None) is "NONE" for an unmatched name.
ReadelfType(listing, name) ==
    LET i == SelectLastInSeq(listing, LAMBDA s : s.alloc /\ ReadelfName(s.name) = name)
    IN  IF i = 0 THEN "NONE" ELSE listing[i].type

\* The lesser of two integers (the "if file_size > size" clip).
Lesser(a, b) == IF a < b THEN a ELSE b

\* The sort of the file-backed sections by file offset; Python's sort is
\* stable, so ties keep their listing order.
FileBacked(secs) == {i \in 1..Len(secs) : secs[i].type # "NOBITS"}

SortsBefore(secs, i, j) ==
    \/ secs[i].file_off < secs[j].file_off
    \/ secs[i].file_off = secs[j].file_off /\ i < j

\* The file footprint of the i-th section: 0 for NOBITS, otherwise the gap
\* to the section that follows it in the sort, clipped to its size, and its
\* size for the last one ("Best guess").
FileSize(secs, i) ==
    LET after == {j \in FileBacked(secs) : SortsBefore(secs, i, j)}
        nxt   == CHOOSE j \in after : \A k \in after \ {j} : SortsBefore(secs, j, k)
    IN  IF secs[i].type = "NOBITS" THEN 0
        ELSE IF after = {} THEN secs[i].size
        ELSE Lesser(secs[nxt].file_off - secs[i].file_off, secs[i].size)

\* get_elf_sections: the ALLOC sections of objdump -h in listing order, each
\* with the type readelf reports for its name and its resolved file_size.
ElfSections(listing) ==
    LET alloc == SelectSeq(listing, LAMBDA s : s.alloc)
        secs  == [i \in 1..Len(alloc) |->
                    [alloc[i] EXCEPT !.type = ReadelfType(listing, alloc[i].name)]]
    IN  [i \in 1..Len(secs) |-> [secs[i] EXCEPT !.file_size = FileSize(secs, i)]]

\* name_to_sec through sec_list_to_dict: the dictionary keeps the last
\* section of a name.  0 is None.
NameToSec(secs, name) == SelectLastInSeq(secs, LAMBDA s : s.name = name)

HasSection(secs, name) == NameToSec(secs, name) # 0

\* file_off_to_sec, lma_to_sec, vma_to_sec: the first section in listing
\* order whose range holds the address; 0 is the ValueError.
FileOffToSec(secs, off) ==
    SelectInSeq(secs, LAMBDA s : off >= s.file_off /\ off < s.file_off + s.file_size)

LmaToSec(secs, lma) ==
    SelectInSeq(secs, LAMBDA s : lma >= s.lma /\ lma < s.lma + s.file_size)

VmaToSec(secs, vma) ==
    SelectInSeq(secs, LAMBDA s : vma >= s.vma /\ vma < s.vma + s.size)

\* lma_to_file_off; defined only where LmaToSec(secs, lma) # 0.
LmaToFileOff(secs, lma) ==
    LET s == secs[LmaToSec(secs, lma)] IN lma - s.lma + s.file_off

=============================================================================
