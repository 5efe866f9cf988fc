------------------------------- MODULE Updater -------------------------------
(* One run of the updater, updater.py: inspection, the package managers, the   *)
(* in-place replacement of an AppImage, pip, and the restart of the service.    *)
(*                                                                            *)
(* A version is a number, and so is the content of a file: the version that it  *)
(* installs, or Corrupt. The release server, the package managers and anyone    *)
(* else who replaces the target meanwhile are external.                         *)
EXTENDS Integers

CONSTANTS Current,  \* the version that runs the updater
          Latest,   \* the version of the release
          Other,    \* what someone else may install meanwhile
          Corrupt, None

Kinds == {"rpm", "deb", "arch", "appimage", "pip", "source", "unknown"}
Contents == {Current, Latest, Corrupt}

VARIABLES
  kind,       \* how the program was installed
  step,       \* the next step of run_update
  release,    \* the inspected release and what its checksum manifest promises
  installed, inode, \* what is in place, and the identity of the AppImage file
  seen,       \* the inode before the download
  file,       \* the temporary file
  placed,     \* what this run put in place
  active,     \* the service was active before the update
  running,    \* the version the service runs, None when it is stopped
  code, told, \* exit status and last message
  foreign     \* someone else replaced the target: before or after the last look

vars == <<kind, step, release, installed, inode, seen, file, placed, active, running,
          code, told, foreign>>

Packaged == {"rpm", "deb"}

Init ==
  /\ kind \in Kinds /\ step = "inspect" /\ release = None
  /\ installed = Current /\ inode = 0 /\ seen = None /\ file = None /\ placed = None
  /\ active = FALSE /\ running \in {Current, None}
  /\ code = None /\ told = "nothing" /\ foreign = "no"

Ends(c, message) == step' = "ended" /\ code' = c /\ told' = message
Fails == Ends(1, "failed")
Quiet == UNCHANGED <<code, told>>
World == <<kind, installed, inode, running, foreign>>

\* inspect_update: the release may be unreadable, not newer, or not for this install.
Inspect ==
  /\ step = "inspect"
  /\ \/ Fails /\ UNCHANGED release
     \/ /\ release' \in {Current, Latest} /\ release' <= Current
        /\ Ends(0, "current")
     \/ /\ release' \in {Current, Latest} /\ release' > Current
        /\ IF kind \in {"source", "unknown"} THEN Fails ELSE step' = "ask" /\ Quiet
  /\ UNCHANGED <<World, seen, file, placed, active>>

\* The question, and then whether the service is active; systemd may be missing.
Ask ==
  /\ step = "ask"
  /\ \/ Ends(0, "cancelled") /\ UNCHANGED active
     \/ /\ step' = CASE kind \in Packaged -> "native" [] kind = "appimage" -> "look"
                     [] kind = "pip" -> "pip" [] OTHER -> "refuse"
        /\ active' \in {running # None, FALSE} /\ Quiet
  /\ UNCHANGED <<World, release, seen, file, placed>>

Refuse ==
  /\ step = "refuse" /\ Fails
  /\ UNCHANGED <<World, release, seen, file, placed, active>>

\* What the package manager holds; the query may fail or be unreadable.
InstalledVersions == {installed, None}

\* Faulty variant: any readable version is taken as current.
AnyIsCurrent(v) == v # None

IsCurrent(v) == v # None /\ v >= release

\* The enabled repository first; its exit status is not looked at.
NativeUpgrade ==
  /\ step = "native"
  /\ installed' \in {installed, Latest, Other}
  /\ step' = "queryNative" /\ Quiet
  /\ UNCHANGED <<kind, inode, running, foreign, release, seen, file, placed, active>>

QueryNative ==
  /\ step = "queryNative"
  /\ \E v \in InstalledVersions : step' = IF IsCurrent(v) THEN "success" ELSE "download"
  /\ Quiet /\ UNCHANGED <<World, release, seen, file, placed, active>>

\* _appimage_update: the target must be a plain file in a writable directory.
Look ==
  /\ step = "look"
  /\ \/ Fails /\ UNCHANGED seen
     \/ seen' = inode /\ step' = "download" /\ Quiet
  /\ UNCHANGED <<World, release, file, placed, active>>

\* select_asset, the manifest and the asset; any of them may be missing or cut short.
Download ==
  /\ step = "download"
  /\ \/ Fails /\ file' = None
     \/ file' \in Contents /\ step' = "verify" /\ Quiet
  /\ UNCHANGED <<World, release, seen, placed, active>>

\* The digest of the file is the one that the manifest names for the release.
DigestMatches == file = release

Verify ==
  /\ step = "verify"
  /\ IF DigestMatches
     THEN step' = (IF kind = "appimage" THEN "check" ELSE "install") /\ file' = file /\ Quiet
     ELSE Fails /\ file' = None
  /\ UNCHANGED <<World, release, seen, placed, active>>

\* The manager installs the artifact, or fails; a version query decides.
InstallArtifact ==
  /\ step = "install" /\ file' = None
  /\ \/ installed' = file /\ placed' = file
     \/ UNCHANGED <<installed, placed>>
  /\ \E v \in {installed', None}, failed \in BOOLEAN :
       IF IsCurrent(v) /\ (kind = "deb" => ~failed) THEN step' = "success" /\ Quiet ELSE Fails
  /\ UNCHANGED <<kind, inode, running, foreign, release, seen, active>>

SameTarget == inode = seen

CheckTarget ==
  /\ step = "check"
  /\ IF SameTarget THEN step' = "replace" /\ UNCHANGED <<file, code, told>>
     ELSE Fails /\ file' = None
  /\ UNCHANGED <<World, release, seen, placed, active>>

\* chmod, fsync and the atomic rename; the rename may fail.
Replace ==
  /\ step = "replace" /\ file' = None
  /\ \/ installed' = file /\ placed' = file /\ inode' = inode + 1 /\ step' = "success" /\ Quiet
     \/ Fails /\ UNCHANGED <<installed, placed, inode>>
  /\ UNCHANGED <<kind, running, foreign, release, seen, active>>

\* pip is trusted by its exit status.
Pip ==
  /\ step = "pip"
  /\ \/ installed' \in {installed, Latest} /\ step' = "success" /\ Quiet
     \/ Fails /\ UNCHANGED installed
  /\ UNCHANGED <<kind, inode, running, foreign, release, seen, file, placed, active>>

MustRestart == active

Succeed ==
  /\ step = "success"
  /\ \/ MustRestart /\ running' = installed /\ Ends(0, "updated")
     \/ MustRestart /\ Ends(1, "stale") /\ UNCHANGED running
     \/ ~MustRestart /\ Ends(0, "updated") /\ UNCHANGED running
  /\ UNCHANGED <<kind, installed, inode, foreign, release, seen, file, placed, active>>

\* Ctrl-C in an update: the temporary file is removed, and nothing is undone.
Interrupt ==
  /\ step \in {"native", "queryNative", "download", "look", "verify", "install", "check",
               "replace", "pip"}
  /\ file' = None /\ Ends(0, "cancelled")
  /\ UNCHANGED <<World, release, seen, placed, active>>

\* Another installer replaces an AppImage, once.
OtherInstalls ==
  /\ foreign = "no" /\ kind = "appimage" /\ step \notin {"ended", "success"}
  /\ installed' = Other /\ inode' = inode + 1
  /\ foreign' = IF step \in {"download", "verify", "check"} THEN "during" ELSE "apart"
  /\ UNCHANGED <<kind, step, release, seen, file, placed, active, running, code, told>>

Next ==
  \/ Inspect \/ Ask \/ Refuse \/ NativeUpgrade \/ QueryNative \/ Look \/ Download \/ Verify
  \/ InstallArtifact \/ CheckTarget \/ Replace \/ Pip \/ Succeed \/ Interrupt \/ OtherInstalls

Spec == Init /\ [][Next]_vars

TypeOK ==
  /\ kind \in Kinds /\ release \in {None, Current, Latest} /\ installed \in Nat /\ inode \in 0..2
  /\ seen \in {None, 0, 1} /\ file \in Contents \cup {None}
  /\ placed \in Contents \cup {None} /\ active \in BOOLEAN
  /\ running \in {None, Current, Latest, Other} /\ code \in {None, 0, 1}

\* What this run puts in place itself is the release that the checksum manifest
\* promises, for packages and AppImages (updater.py:362-373).
OnlyVerifiedPlaced == placed # None => placed = Latest

\* A reported success means that the release is in place: asked of the package
\* manager, or renamed into place; pip is excepted, it is trusted.
SuccessIsInstalled ==
  (told = "updated" \/ told = "stale") /\ kind # "pip" => installed >= Latest

\* A reported success with exit status 0 leaves no service on the old version,
\* if the service could be asked about before (updater.py:549-554, 577-583).
ServiceRunsTheUpdate == told = "updated" /\ active => running = installed

\* A target that someone else replaced during the download is not overwritten.
ForeignTargetKept == foreign = "during" => placed = None

\* What an update reports is true of the files and of the service, and it puts
\* nothing in place but what was verified, over nothing but what it looked at.
ReportedUpdateIsReal ==
  OnlyVerifiedPlaced /\ SuccessIsInstalled /\ ServiceRunsTheUpdate /\ ForeignTargetKept

=============================================================================
