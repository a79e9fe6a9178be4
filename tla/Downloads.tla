------------------------------ MODULE Downloads ------------------------------
(***************************************************************************)
(* The desktop installers of DownloadService: the folder they are put in,  *)
(* while the backend runs, and the two requests that read it.              *)
(*                                                                         *)
(* A file name is told by what it ends with and the platforms it says.  A  *)
(* listing reads the folder, then looks at each entry; serving looks twice *)
(* and then opens: the folder may change between.                          *)
(***************************************************************************)
EXTENDS Naturals, Sequences, FiniteSets, SequencesExt

CONSTANTS Names,       \* the file names that are ever used
          MaxVersion   \* bound: files put into the folder

ASSUME DownloadsAssumption == MaxVersion \in Nat

VARIABLES site,      \* the mode of the process, and which of the two folders exist
          folder,    \* per name: nothing, a directory, or a file of a version
          versions,  \* how many files have been put there, the clock of mtime
          call,      \* the request in progress
          given      \* the last answer, until the folder changes
downloadVars == <<site, folder, versions, call, given>>

Nothing == [kind |-> "nothing", version |-> 0]
Directory == [kind |-> "directory", version |-> 0]
File(version) == [kind |-> "file", version |-> version]
Entries == {Nothing, Directory} \cup {File(version) : version \in 1..MaxVersion}

\* A request: where it is, the names it has yet to look at, the artifacts it has found,
\* and the names whose entries have not changed since it came.
Idle == [at |-> "idle", todo |-> {}, found |-> {}, steady |-> {}]
Answer(status, list) == [status |-> status, list |-> list, steady |-> call.steady]
NoAnswer == [status |-> "none", list |-> <<>>, steady |-> {}]

DownloadsInit == /\ site \in [production : BOOLEAN, has : SUBSET {"dist", "src"}]
                 /\ folder = [n \in Names |-> Nothing] /\ versions = 0
                 /\ call = Idle /\ given = NoAnswer

\* resolveDesktopAppsFolder, and resolveScriptsFolder, which differs in the folder's name.
ResolveFolder(production, has) ==
    LET primary == IF production THEN "dist" ELSE "src"
        secondary == IF production THEN "src" ELSE "dist"
    IN  IF primary \in has THEN primary ELSE IF secondary \in has THEN secondary ELSE "none"
NoFolder == ResolveFolder(site.production, site.has) = "none"

WindowsEnds == {".msi", ".exe"}
MacosEnds == {".dmg", ".app.tar.gz"}
LinuxEnds == {".appimage", ".deb", ".rpm", ".tar.gz", ".app.tar.gz"}

\* Mutant: the branches for macOS and Linux are swapped.
InferLinuxFirst(n) ==
    IF n.ends \in WindowsEnds \/ "windows" \in n.says THEN "windows"
    ELSE IF n.ends \in LinuxEnds \/ "linux" \in n.says THEN "linux"
    ELSE IF n.ends \in MacosEnds \/ n.says \cap {"macos", "darwin"} # {} THEN "macos"
    ELSE "none"

\* The first platform that fits, or none.
InferPlatformFromFilename(n) ==
    IF n.ends \in WindowsEnds \/ "windows" \in n.says THEN "windows"
    ELSE IF n.ends \in MacosEnds \/ n.says \cap {"macos", "darwin"} # {} THEN "macos"
    ELSE IF n.ends \in LinuxEnds \/ "linux" \in n.says THEN "linux"
    ELSE "none"

-----------------------------------------------------------------------------
(* Whoever releases the installers. *)
Change(n, entry) ==
    /\ folder' = [folder EXCEPT ![n] = entry]
    /\ call' = [call EXCEPT !.steady = @ \ {n}]
    /\ given' = NoAnswer
    /\ UNCHANGED site

PutFile(n) == /\ versions < MaxVersion /\ versions' = versions + 1
          /\ Change(n, File(versions + 1))
MakeDirectory(n) == folder[n] = Nothing /\ Change(n, Directory) /\ UNCHANGED versions
RemoveEntry(n) == folder[n] # Nothing /\ Change(n, Nothing) /\ UNCHANGED versions

-----------------------------------------------------------------------------
Respond(status, list) ==
    /\ given' = Answer(status, list) /\ call' = Idle
    /\ UNCHANGED <<site, folder, versions>>
Proceed(next) == call' = next /\ given' = NoAnswer /\ UNCHANGED <<site, folder, versions>>

(* GET /download/desktop-apps. *)
ListDesktopAppArtifacts ==
    /\ call.at = "idle"
    /\ IF NoFolder THEN Respond("empty", <<>>)
       ELSE Proceed([at |-> "list", found |-> {}, steady |-> Names,
                     todo |-> {n \in Names : folder[n] # Nothing}])

\* One entry is looked at; statSync throws when it is gone, which fails the request.
StatEntry(n) ==
    /\ call.at = "list" /\ n \in call.todo
    /\ LET platform == InferPlatformFromFilename(n)
           shown == IF folder[n].kind = "file" /\ platform # "none"
                    THEN {[name |-> n, platform |-> platform, updatedAt |-> folder[n].version]}
                    ELSE {}
       IN  IF folder[n] = Nothing THEN Respond("error", <<>>)
           ELSE Proceed([call EXCEPT !.todo = @ \ {n}, !.found = @ \cup shown])

\* The comparison of the sort; artifacts of one time are in the order they were read.
NewestFirst(a, b) == a.updatedAt >= b.updatedAt

EndListing ==
    /\ call.at = "list" /\ call.todo = {}
    /\ \E list \in SetToSeqs(call.found) :
          /\ \A i \in 1..(Len(list) - 1) : NewestFirst(list[i], list[i + 1])
          /\ Respond("listed", list)

(* GET /download/desktop-apps/:filename. *)

OpenDesktopAppArtifact(n) ==
    /\ call.at = "idle"
    /\ IF NoFolder \/ folder[n] = Nothing THEN Respond("not_found", <<>>)
       ELSE Proceed([at |-> "stat", todo |-> {n}, found |-> {}, steady |-> Names])

\* A name that is blank or has a slash in it.
RefuseFilename == call.at = "idle" /\ Respond("not_found", <<>>)

StatFile(n) ==
    /\ call.at = "stat" /\ call.todo = {n}
    /\ IF folder[n] = Nothing THEN Respond("error", <<>>)
       ELSE IF folder[n] = Directory THEN Respond("not_found", <<>>)
       ELSE Proceed([call EXCEPT !.at = "stream"])

\* The stream opens the file when the answer has been begun.
StreamFile(n) ==
    /\ call.at = "stream" /\ call.todo = {n}
    /\ Respond(IF folder[n].kind = "file" THEN "sent" ELSE "error", <<>>)

DownloadsNext ==
    \/ ListDesktopAppArtifacts \/ EndListing \/ RefuseFilename
    \/ \E n \in Names : \/ PutFile(n) \/ MakeDirectory(n) \/ RemoveEntry(n)
                        \/ StatEntry(n) \/ OpenDesktopAppArtifact(n) \/ StatFile(n) \/ StreamFile(n)
=============================================================================
