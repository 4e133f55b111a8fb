----------------------------- MODULE DceInstall -----------------------------
(***************************************************************************)
(* How the exporter's program gets onto the machine (exporter/manager.py): *)
(* an archive is downloaded, compared with the pinned hash, unpacked into  *)
(* a temporary folder next to the real one, and moved into place.  Later   *)
(* runs use what they find there without another check.                    *)
(***************************************************************************)
EXTENDS Naturals

VARIABLES
    installed,   \* at the place get_dce_path looks: "none", "torn", "pinned", "other"
    unpacked,    \* in the temporary folder: the same
    archive,     \* the downloaded data: "none", "pinned", "other"
    installing,  \* "no", "download", "verify", "extract", "check" or "replace"
    attempt,     \* of the download
    unchecked    \* some run skipped a check that would have failed (history)

installVars == <<installed, unpacked, archive, installing, attempt, unchecked>>

InstallInit ==
    /\ installed = "none" /\ unpacked = "none" /\ archive = "none"
    /\ installing = "no" /\ attempt = 0 /\ unchecked = FALSE

\* get_dce_path: any regular executable file will do.
GetDcePath == installed

StartInstall ==
    /\ installing = "no" /\ GetDcePath = "none"
    /\ installing' = "download" /\ attempt' = 0
    /\ UNCHANGED <<installed, unpacked, archive, unchecked>>

\* The data is whatever the server sent.
Download(data) ==
    /\ installing = "download"
    /\ archive' = data
    /\ installing' = "verify"
    /\ UNCHANGED <<installed, unpacked, attempt, unchecked>>

\* Once more after three seconds.
DownloadAgain ==
    /\ installing = "download" /\ attempt = 0
    /\ attempt' = 1
    /\ UNCHANGED <<installed, unpacked, archive, installing, unchecked>>

\* The error leaves through the finally, which removes the temporary folder.
InstallEnds ==
    /\ installing' = "no" /\ archive' = "none" /\ unpacked' = "none" /\ attempt' = 0

\* A certificate or proxy failure is permanent; another one was the second.
DownloadFails ==
    /\ installing = "download"
    /\ InstallEnds
    /\ UNCHANGED <<installed, unchecked>>

\* _verify_dce_checksum, unless skip_verify.
Verify(skip) ==
    /\ installing = "verify"
    /\ skip \/ archive = "pinned"
    /\ installing' = "extract"
    /\ unchecked' = (unchecked \/ (skip /\ archive # "pinned"))
    /\ UNCHANGED <<installed, unpacked, archive, attempt>>

HashMismatch ==
    /\ installing = "verify" /\ archive # "pinned"
    /\ InstallEnds
    /\ UNCHANGED <<installed, unchecked>>

\* Unpacking begins, and a death now leaves half of it.
ExtractInPlace ==
    /\ installing = "extract"
    /\ installed' = "torn"
    /\ installing' = "check"
    /\ UNCHANGED <<unpacked, archive, attempt, unchecked>>

Extract ==
    /\ installing = "extract"
    /\ unpacked' = "torn"
    /\ installing' = "check"
    /\ UNCHANGED <<installed, archive, attempt, unchecked>>

\* Every entry stays inside, and there is an executable.
ExtractDone ==
    /\ installing = "check"
    /\ unpacked' = archive
    /\ installing' = "replace"
    /\ UNCHANGED <<installed, archive, attempt, unchecked>>

\* Not a zip, an entry that would leave the folder, no executable, or no room for it.
ExtractFails ==
    /\ installing = "check"
    /\ InstallEnds
    /\ UNCHANGED <<installed, unchecked>>

\* What was there is not executable: it is removed, and the folder renamed.
Replace ==
    /\ installing = "replace"
    /\ installed' = unpacked
    /\ InstallEnds
    /\ UNCHANGED unchecked

\* The program dies; the temporary folder stays, and nobody looks at it again.
InstallDies ==
    /\ installing' = "no" /\ archive' = "none" /\ attempt' = 0
    /\ UNCHANGED <<installed, unpacked, unchecked>>
=============================================================================
