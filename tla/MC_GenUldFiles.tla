--------------------------- MODULE MC_GenUldFiles ---------------------------
(***************************************************************************)
(* Model values for GenUldFiles.  Input files have names of 1, 3 and 4     *)
(* bytes (entries of 24, 24 and 28 bytes) and sizes 5 (padded to 8 by     *)
(* --file-align 3, through a temporary file) or 8 (no padding); a run gets *)
(* up to three of them.  The table holds 52 bytes: two entries fit, one of *)
(* them exactly (24 + 28, no .space left), two 28-byte ones and any three  *)
(* overflow.  The crc of the 5-byte file is negative, as Python 2's        *)
(* zlib.crc32 returns it, so the masking is exercised.  The link puts      *)
(* .files at 256 and .fs_table at 512, each at file offset lma + 16, and   *)
(* leaves out an empty .files section.                                     *)
(***************************************************************************)
EXTENDS GenUldFiles

MC_Names == {<<97>>, <<98, 99, 100>>, <<101, 102, 103, 104>>}

\* crc[p]: the crc of the content followed by p NULs, distinct for each p.
MC_File(name, size) == [name |-> name, size |-> size,
                        crc |-> [p \in 0..7 |-> IF size = 5 THEN -7 - 100 * p
                                                          ELSE 12 + 100 * p]]

MC_Files == {MC_File(n, s) : n \in MC_Names, s \in {5, 8}}

MC_InputLists == UNION {[1..n -> MC_Files] : n \in 0..3}

FwSec(name, size, lma) == Listing(name, size, lma, lma, lma + 16, TRUE, "PROGBITS")

MC_FwListing(filesSize) ==
    <<FwSec(".text", 256, 0)>>
    \o (IF filesSize > 0 THEN <<FwSec(".files", filesSize, 256)>> ELSE <<>>)
    \o <<FwSec(".fs_table", 52, 512), FwSec(".uld_pdata", 32, 564)>>

\* A link that keeps .files in the image even when it is empty.
MC_FwListingKeepFiles(filesSize) ==
    <<FwSec(".text", 256, 0), FwSec(".files", filesSize, 256),
      FwSec(".fs_table", 52, 512), FwSec(".uld_pdata", 32, 564)>>

=============================================================================
