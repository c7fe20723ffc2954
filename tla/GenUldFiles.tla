---------------------------- MODULE GenUldFiles ----------------------------
(***************************************************************************)
(* gen-uld-files.py: one run of gen_uld_files and the cleanup of main's    *)
(* finally clause.  It copies the template object args.obj to a temporary  *)
(* file, pads each input file and adds it to the copy as a section         *)
(* (objcopy), builds the table header (gen_hdr), then unlinks args.obj,    *)
(* writes args.hdr and renames the copy over args.obj.                     *)
(*                                                                         *)
(* Files on disk are abstracted to what the properties tell apart:         *)
(*   obj  - args.obj: "orig", "absent", or "new" with the sections added;  *)
(*   hdr  - args.hdr: "old", "empty" (truncated), "short" (part written),  *)
(*          or "new" with the table bytes it defines;                      *)
(*   tmpObj, tmpPads - the mkstemp files still on disk.                    *)
(* A failing system call or tool is a fault from the set Faults, chosen    *)
(* nondeterministically where the call is made; "kill" ends the process    *)
(* at any point without the finally clause.                                *)
(***************************************************************************)
EXTENDS Integers, Sequences, FiniteSets, SequencesExt, FsTable

CONSTANTS
    InputLists,  \* the file lists a run may be given: <<[name, size, crc]>>,
                 \* crc[p] being zlib.crc32 (signed) of the file's content
                 \* followed by p NUL bytes
    FileAlign,   \* --file-align
    TableSize,   \* --fs-table-size
    FilesLma,    \* the address the link gives --sec-sym-base
    TableLma,    \* the address the link gives --fs-table-sym-def
    Faults,      \* subset of FaultKinds
    FwListing(_) \* the firmware's section listing after the link, given
                 \* the size of its .files section (0: no .files section)

FaultKinds == {"open_obj", "open_in", "objcopy", "open_hdr", "write_hdr",
               "short_write", "rename", "kill"}

ASSUME Faults \subseteq FaultKinds

VARIABLES files, pc, k, hdrInfo, hdrText, tmpObj, tmpPads, obj, hdr, err, status

vars == <<files, pc, k, hdrInfo, hdrText, tmpObj, tmpPads, obj, hdr, err, status>>

\* An exception: the rest of gen_uld_files is skipped, the finally runs.
Raise(e) == err' = e /\ pc' = "cleanup"

Init ==
    /\ files \in InputLists
    /\ pc = "copy" /\ k = 1
    /\ hdrInfo = <<>> /\ hdrText = <<>>
    /\ tmpObj = [live |-> FALSE, secs |-> <<>>] /\ tmpPads = 0
    /\ obj = [state |-> "orig", secs |-> <<>>]
    /\ hdr = [state |-> "old", table |-> <<>>]
    /\ err = "none" /\ status = "running"

\* new_tmp, then open args.obj and fdcopy it into the temporary file.
CopyObj ==
    /\ pc = "copy"
    /\ tmpObj' = [live |-> TRUE, secs |-> <<>>]
    /\ \/ "open_obj" \in Faults /\ Raise("OSError")
       \/ pc' = "add" /\ UNCHANGED err
    /\ UNCHANGED <<files, k, hdrInfo, hdrText, tmpPads, obj, hdr, status>>

\* A padded copy goes through a temporary file.
NeedsTmp(pad) == pad # 0

\* crcfd: zlib.crc32 of the whole file, read in chunks to its end.
CrcFd(f) == f.crc[0]

\* Mutant: the crc of the NUL padding not chained on (crcwrite's result
\* dropped), leaving the crc fdcopy returned for the content alone.
PaddedCrcContentOnly(f, pad) == f.crc[0]

\* fdcopy of the file into the padding temporary (crcwrite of each chunk,
\* chaining the crc), then crcwrite of pad NULs on that crc.
PaddedCrc(f, pad) == f.crc[pad]

\* o_add_file: objcopy --add-section appends the file as the object's last
\* section (qc raises CmdError on a non-zero exit, the other disjunct).
OAddFile(o, secname) == [o EXCEPT !.secs = Append(@, secname)]

\* One iteration of the loop over args.file: open, pad (through a second
\* temporary file when pad != 0), record (name, size + pad, crc), objcopy.
AddFile ==
    /\ pc = "add" /\ k <= Len(files)
    /\ LET f   == files[k]
           pad == PadLen(f.size, FileAlign)
       IN
       \/ "open_in" \in Faults /\ Raise("OSError")
          /\ UNCHANGED <<k, hdrInfo, tmpObj, tmpPads>>
       \/ /\ tmpPads' = tmpPads + (IF NeedsTmp(pad) THEN 1 ELSE 0)
          /\ hdrInfo' = Append(hdrInfo, [name |-> f.name, size |-> f.size + pad,
                                         crc |-> IF NeedsTmp(pad)
                                                 THEN PaddedCrc(f, pad)
                                                 ELSE CrcFd(f)])
          /\ \/ "objcopy" \in Faults /\ Raise("CmdError")
                /\ UNCHANGED <<k, tmpObj>>
             \/ /\ tmpObj' = OAddFile(tmpObj, f.name)
                /\ k' = k + 1
                /\ UNCHANGED <<pc, err>>
    /\ UNCHANGED <<files, hdrText, obj, hdr, status>>

\* hdr = gen_hdr(args, hdr_info), after the last file.
GenHdrStep ==
    /\ pc = "add" /\ k > Len(files)
    /\ LET r == GenHdr(hdrInfo, FilesLma, TableLma, TableSize) IN
       \/ ~r.ok /\ Raise("GenError") /\ UNCHANGED hdrText
       \/ r.ok /\ hdrText' = r.bytes /\ pc' = "unlink" /\ UNCHANGED err
    /\ UNCHANGED <<files, k, hdrInfo, tmpObj, tmpPads, obj, hdr, status>>

\* os.unlink(args.obj).
UnlinkObj ==
    /\ pc = "unlink"
    /\ obj' = [state |-> "absent", secs |-> <<>>]
    /\ pc' = "open_hdr"
    /\ UNCHANGED <<files, k, hdrInfo, hdrText, tmpObj, tmpPads, hdr, err, status>>

\* os.open(args.hdr, O_WRONLY | O_CREAT | O_TRUNC).
OpenHdr ==
    /\ pc = "open_hdr"
    /\ \/ "open_hdr" \in Faults /\ Raise("OSError") /\ UNCHANGED hdr
       \/ hdr' = [state |-> "empty", table |-> <<>>] /\ pc' = "write_hdr"
          /\ UNCHANGED err
    /\ UNCHANGED <<files, k, hdrInfo, hdrText, tmpObj, tmpPads, obj, status>>

\* The counts os.write may return for n bytes: n, or fewer on a full disk.
WriteCounts(n) == IF "short_write" \in Faults THEN 0..n ELSE {n}

\* os.write(hdr_fd, hdr): one call whose count is not looked at.
WriteHdr ==
    /\ pc = "write_hdr"
    /\ \/ "write_hdr" \in Faults /\ Raise("OSError") /\ UNCHANGED hdr
       \/ \E wn \in WriteCounts(Len(hdrText)) :
             /\ hdr' = [state |-> IF wn = Len(hdrText) THEN "new" ELSE "short",
                        table |-> SubSeq(hdrText, 1, wn)]
             /\ pc' = "rename" /\ UNCHANGED err
    /\ UNCHANGED <<files, k, hdrInfo, hdrText, tmpObj, tmpPads, obj, status>>

\* os.rename(out_obj_tpath, args.obj); fails across file systems (EXDEV).
RenameObj ==
    /\ pc = "rename"
    /\ \/ "rename" \in Faults /\ Raise("OSError") /\ UNCHANGED <<obj, tmpObj>>
       \/ /\ obj' = [state |-> "new", secs |-> tmpObj.secs]
          /\ tmpObj' = [tmpObj EXCEPT !.live = FALSE]
          /\ pc' = "cleanup" /\ UNCHANGED err
    /\ UNCHANGED <<files, k, hdrInfo, hdrText, tmpPads, hdr, status>>

\* Mutant: the padding files left out of tmpfiles, so never removed.
CleanupObjOnly ==
    /\ pc = "cleanup"
    /\ tmpObj' = [tmpObj EXCEPT !.live = FALSE]
    /\ pc' = "exit"
    /\ status' = IF err = "none" THEN "ok" ELSE "error"
    /\ UNCHANGED <<files, k, hdrInfo, hdrText, obj, hdr, err, tmpPads>>

Cleanup ==
    /\ pc = "cleanup"
    /\ tmpObj' = [tmpObj EXCEPT !.live = FALSE] /\ tmpPads' = 0
    /\ pc' = "exit"
    /\ status' = IF err = "none" THEN "ok" ELSE "error"
    /\ UNCHANGED <<files, k, hdrInfo, hdrText, obj, hdr, err>>

\* The process is killed (signal, power loss): no finally clause runs.
Kill ==
    /\ "kill" \in Faults /\ pc # "exit"
    /\ pc' = "exit" /\ status' = "killed"
    /\ UNCHANGED <<files, k, hdrInfo, hdrText, tmpObj, tmpPads, obj, hdr, err>>

\* The process has exited.
Exited == pc = "exit" /\ UNCHANGED vars

Next ==
    \/ CopyObj \/ AddFile \/ GenHdrStep \/ UnlinkObj \/ OpenHdr \/ WriteHdr
    \/ RenameObj \/ Cleanup \/ Kill \/ Exited

Spec == Init /\ [][Next]_vars /\ WF_vars(Next)

-----------------------------------------------------------------------------
(***************************************************************************)
(* What the builder promises (spec 4.2, 5, 7, 8), stated of the inputs.    *)
(***************************************************************************)
\* The table entries a list of files should produce, and the table.
ExpectedInfo(fs) ==
    [i \in 1..Len(fs) |-> [name |-> fs[i].name,
                           size |-> fs[i].size + PadLen(fs[i].size, FileAlign),
                           crc  |-> fs[i].crc[PadLen(fs[i].size, FileAlign)]]]

ExpectedTable(fs) == GenHdr(ExpectedInfo(fs), FilesLma, TableLma, TableSize)

FwSecs(fs) ==
    ElfSections(FwListing(FoldSeq(LAMBDA e, acc : e.size + acc, 0,
                                  ExpectedInfo(fs))))

\* What patch_uld_elf reads back out of the linked image: the parsed
\* .fs_table when there is a .files section, no entries otherwise.
TableEntries(fs, table) ==
    LET secs == FwSecs(fs)
        tsec == secs[NameToSec(secs, ".fs_table")]
    IN  IF HasSection(secs, ".files")
        THEN ParseFsTable(table, tsec.file_off, secs)
        ELSE [ok |-> TRUE, err |-> "none", entries |-> <<>>]

\* The entry the patcher should find for the i-th file: its padded size,
\* its masked crc, its name, its base after the files before it, and the
\* file offset of the entry itself (where the new crc is written).
ExpectedEntry(fs, i) ==
    LET info == ExpectedInfo(fs)
        secs == FwSecs(fs)
        before(S) == FoldSeq(LAMBDA e, acc : e + acc, 0, [j \in 1..(i - 1) |-> S[j]])
    IN  [file_base  |-> FilesLma + before([j \in 1..Len(info) |-> info[j].size]),
         size       |-> info[i].size,
         crc        |-> info[i].crc % WordMod,
         flags      |-> 0,
         name       |-> info[i].name,
         e_file_off |-> secs[NameToSec(secs, ".fs_table")].file_off
                        + before([j \in 1..Len(info) |->
                              FS_ENTRY_SIZE + Len(PaddedName(info[j].name))])]

-----------------------------------------------------------------------------
\* args.obj and args.hdr are touched only once every file has been added
\* to the temporary object and the table has been built from all of them
\* (gen_uld_files: gen_hdr before os.unlink and os.open of args.hdr).
OutputsTouchedOnlyAfterTableBuilt ==
    (obj.state # "orig" \/ hdr.state # "old") =>
        /\ tmpObj.secs = [i \in 1..Len(files) |-> files[i].name]
        /\ ExpectedTable(files).ok
        /\ hdrText = ExpectedTable(files).bytes

\* A run that exits 0 leaves args.obj with one section per file in order,
\* args.hdr with the whole table, and no temporary file on disk.
BuildComplete ==
    status = "ok" =>
        /\ obj = [state |-> "new", secs |-> [i \in 1..Len(files) |-> files[i].name]]
        /\ hdr = [state |-> "new", table |-> ExpectedTable(files).bytes]
        /\ ~tmpObj.live /\ tmpPads = 0

FsTableRoundTrip ==
    hdr.state = "new" =>
        LET r == TableEntries(files, hdr.table) IN
        /\ r.ok
        /\ Len(r.entries) = Len(files)
        /\ \A i \in 1..Len(files) :
              [f \in DOMAIN ExpectedEntry(files, i) |-> r.entries[i][f]]
                  = ExpectedEntry(files, i)

\* A run that fails or is killed leaves args.obj and args.hdr as they were
\* (spec 7: "the builder guarantees no output file is left modified").
FailureLeavesOutputs ==
    status \in {"error", "killed"} => obj.state = "orig" /\ hdr.state = "old"

=============================================================================
