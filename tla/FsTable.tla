------------------------------ MODULE FsTable ------------------------------
(***************************************************************************)
(* The file table both tools share: gen-uld-files.py writes it (pad_len,   *)
(* gen_hdr) as .word/.ascii/.space lines that the firmware build assembles *)
(* and links into .fs_table; patch-uld-elf.py reads it back out of the     *)
(* linked image (parse_fs_table).  Bytes are integers 0..255; a table is a *)
(* sequence of them (byte o of the table is element o + 1).  The symbols   *)
(* the .word lines add (--sec-sym-base, --fs-table-sym-def) are given the  *)
(* addresses the link gave them.                                           *)
(***************************************************************************)
EXTENDS Integers, Sequences, SequencesExt, SectionModel

CONSTANT WordBits   \* width of a table word ('<I': 32; smaller in a model)

FS_ENTRY_SIZE == 20          \* struct.calcsize('<IIIII')
WordMod == 2^WordBits

Zeros(n) == [i \in 1..n |-> 0]

\* pad_len: bytes that round size up to a multiple of 2^align
\* ((size + m) & ~m) - size, with m = 2^align - 1, for size >= 0.
PadLen(size, align) ==
    LET m == 2^align - 1 IN ((size + m) \div 2^align) * 2^align - size

\* A 32-bit word as the four little-endian bytes .word emits.
WordBytes(v) == [i \in 1..4 |-> (v \div 2^(8 * (i - 1))) % 256]

\* struct.unpack('<I') of the four bytes at offset o of buf.
WordAt(buf, o) == LET b(i) == buf[o + i] IN
    b(1) + 256 * b(2) + 65536 * b(3) + 16777216 * b(4)

\* The entry name NUL-padded to 4 bytes with at least one NUL.
PaddedName(name) == name \o Zeros(PadLen(Len(name) + 1, 2) + 1)

\* The .next word "{fs_table_sym_def} + 0x{next_e}"; mutant: the offset
\* within the table alone.
NextWordRelative(tableSym, off) == off
NextWord(tableSym, off) == tableSym + off

(***************************************************************************)
(* gen_hdr: infos is hdr_info, <<[name, size, crc]>> in command-line       *)
(* order; base is the running sum of sizes after the --sec-sym-base        *)
(* symbol, next the offset after the entry (0 on the last), crc masked to  *)
(* 32 bits, flags 0; .space pads the table to tableSize bytes.  A table    *)
(* longer than tableSize is the GenError (ok = FALSE).                     *)
(***************************************************************************)
GenHdr(infos, secSymBase, tableSym, tableSize) ==
    LET n == Len(infos)
        entryLen(i) == FS_ENTRY_SIZE + Len(PaddedName(infos[i].name))
        nextE[i \in 0..n] == IF i = 0 THEN 0 ELSE nextE[i - 1] + entryLen(i)
        base[i \in 1..n] == IF i = 1 THEN 0 ELSE base[i - 1] + infos[i - 1].size
        entry(i) ==
            WordBytes(secSymBase + base[i])
            \o WordBytes(IF i = n THEN 0 ELSE NextWord(tableSym, nextE[i]))
            \o WordBytes(infos[i].size)
            \o WordBytes(infos[i].crc % WordMod)
            \o WordBytes(0)
            \o PaddedName(infos[i].name)
        space == tableSize - nextE[n]
    IN  IF space < 0 THEN [ok |-> FALSE, bytes |-> <<>>]
        ELSE [ok |-> TRUE,
              bytes |-> FlattenSeq([i \in 1..n |-> entry(i)]) \o Zeros(space)]

(***************************************************************************)
(* parse_fs_table(buf, buf_file_off, sec_list): from offset 0, read the    *)
(* five header words, scan for the name's NUL, and follow a non-zero next  *)
(* through lma_to_file_off.  err names the exception that ends it:        *)
(* IndexError when the scan runs off buf, LookupFailure when next lies in  *)
(* no section or outside buf (the ValueErrors), Loop when it never ends.   *)
(***************************************************************************)
RECURSIVE ParseFrom(_, _, _, _, _)
ParseFrom(buf, bufFileOff, secs, eBase, acc) ==
    LET nul   == SelectInSubSeq(buf, eBase + FS_ENTRY_SIZE + 1, Len(buf),
                                LAMBDA c : c = 0)
        fail(e) == [ok |-> FALSE, err |-> e, entries |-> acc]
    IN
    IF eBase + FS_ENTRY_SIZE >= Len(buf) \/ nul = 0 THEN fail("IndexError")
    ELSE IF Len(acc) > Len(buf) THEN fail("Loop")   \* an e_base revisited
    ELSE
    LET fse == [e_file_off |-> eBase + bufFileOff,
                file_base  |-> WordAt(buf, eBase),
                next_e     |-> WordAt(buf, eBase + 4),
                size       |-> WordAt(buf, eBase + 8),
                crc        |-> WordAt(buf, eBase + 12),
                flags      |-> WordAt(buf, eBase + 16),
                name       |-> SubSeq(buf, eBase + FS_ENTRY_SIZE + 1, nul - 1)]
        acc2 == Append(acc, fse)
    IN
    IF fse.next_e = 0 THEN [ok |-> TRUE, err |-> "none", entries |-> acc2]
    ELSE IF LmaToSec(secs, fse.next_e) = 0 THEN fail("LookupFailure")
    ELSE LET nb == LmaToFileOff(secs, fse.next_e) - bufFileOff IN
         IF nb < 0 \/ nb > Len(buf) THEN fail("LookupFailure")
         ELSE ParseFrom(buf, bufFileOff, secs, nb, acc2)

ParseFsTable(buf, bufFileOff, secs) == ParseFrom(buf, bufFileOff, secs, 0, <<>>)

=============================================================================
