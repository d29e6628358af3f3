------------------------- MODULE ExecutableResolver -------------------------
(***************************************************************************)
(* resolveLaunchCandidates of src/tools/vscode-parus/src/extension.ts      *)
(* (835-1013) over an abstract file system.  A file is a record of its     *)
(* directory, its base-name stem (only its lowercase prefix parusc/parusd  *)
(* matters) and its extension.  Directories:                               *)
(*   "wsCompiler"  <workspace>/build/compiler/parusc                       *)
(*   "wsBuild"     <workspace>/build                                       *)
(*   "p1", "p2"    entries of process.env.PATH                             *)
(*   "abs"         the directory of an absolute server.path                *)
(*   "wsRel"/"cwd" a relative server.path resolved against the workspace   *)
(*                 root, or against the process cwd when there is none.    *)
(* The executable files (fs.access X_OK succeeds) are a variable that the  *)
(* user changes by building or deleting binaries, as are the settings;     *)
(* every start resolves from the current ones.                             *)
(***************************************************************************)
EXTENDS Naturals, Sequences, SequencesExt

CONSTANTS
  Files,        \* the files that may become executable
  ServerPaths,  \* values parus.server.path may take (kind "unset" = the empty string)
  PathValues    \* values of process.env.PATH, as sequences of directories

Stems == {"parusc", "parusd", "tool"}
Exts  == {"", ".exe"}
Modes == {"driver", "direct"}
NoFile == [dir |-> "none", stem |-> "none", ext |-> ""]
NoItems  == [parusc |-> NoFile, parusd |-> NoFile]
NoPick   == [file |-> NoFile, mode |-> "none"]
Unset    == [kind |-> "unset", dir |-> "none", stem |-> "none", ext |-> ""]

VARIABLES
  serverPath,    \* cfg.serverPath: [kind, dir, stem, ext], kind unset/bare/abs/rel;
                 \* dir is the directory an absolute path names
  serverMode,    \* cfg.serverMode
  hasWorkspace,  \* getPrimaryWorkspaceFolder() is defined
  pathDirs,      \* the PATH directories (empty parts filtered out)
  win32,         \* process.platform === "win32"
  exec,          \* the executable files
  dialog,        \* Configure Server Path: "closed", or the open "picking", "finder", "input"
  items,         \* the workspace parusc/parusd the quick pick offers (NoFile: no item)
  dialogMode,    \* cfg.serverMode read when the command opened the dialog
  picked         \* the binary and mode the command last wrote, or NoPick

flowVars == <<dialog, items, dialogMode, picked>>
vars == <<serverPath, serverMode, hasWorkspace, pathDirs, win32, exec, flowVars>>

-----------------------------------------------------------------------------
(* The code, one operator per function.                                    *)

\* expandExecutableName / expandExecutablePath: on win32 a name that does
\* not end in .exe is also tried with .exe appended.
ExpandExecutable(dir, stem, ext) ==
  IF win32 /\ ext # ".exe"
  THEN <<[dir |-> dir, stem |-> stem, ext |-> ext], [dir |-> dir, stem |-> stem, ext |-> ".exe"]>>
  ELSE <<[dir |-> dir, stem |-> stem, ext |-> ext]>>

\* The first file of the list that isExecutableFile accepts, or NoFile.
FirstExecutable(list) ==
  LET i == SelectInSeq(list, LAMBDA f : f \in exec)
  IN IF i = 0 THEN NoFile ELSE list[i]

\* resolveExecutableFile(basePath).
ResolveExecutableFile(dir, stem, ext) == FirstExecutable(ExpandExecutable(dir, stem, ext))

\* resolveInPath: every PATH directory in order, each name expansion.
ResolveInPath(stem, ext) ==
  FirstExecutable(FlattenSeq([i \in 1..Len(pathDirs) |-> ExpandExecutable(pathDirs[i], stem, ext)]))

\* Mutant of ResolveFromWorkspaceBuild (ResolverMatchesSpec): build/ is
\* searched before build/compiler/parusc/.
ResolveFromWorkspaceBuildSwapped(cmd) ==
  IF ~hasWorkspace THEN NoFile
  ELSE FirstExecutable(ExpandExecutable("wsBuild", cmd, "") \o ExpandExecutable("wsCompiler", cmd, ""))

\* resolveFromWorkspaceBuild: build/compiler/parusc/<cmd>, then build/<cmd>.
ResolveFromWorkspaceBuild(cmd) ==
  IF ~hasWorkspace THEN NoFile
  ELSE FirstExecutable(ExpandExecutable("wsCompiler", cmd, "") \o ExpandExecutable("wsBuild", cmd, ""))

\* resolveAutoCommand: the workspace build first, then PATH.
ResolveAutoCommand(cmd) ==
  IF ResolveFromWorkspaceBuild(cmd) # NoFile THEN ResolveFromWorkspaceBuild(cmd)
  ELSE ResolveInPath(cmd, "")

\* resolveConfiguredCommand: a bare name is looked up on PATH and, when
\* not found, returned as it is; a path is resolved against the workspace
\* root (or the cwd) and must be executable, or the function throws.
ResolveConfiguredCommand(sp) ==
  IF sp.kind = "bare"
  THEN LET inPath == ResolveInPath(sp.stem, sp.ext)
       IN IF inPath # NoFile THEN inPath ELSE [dir |-> "bare", stem |-> sp.stem, ext |-> sp.ext]
  ELSE LET dir == CASE sp.kind = "abs" -> sp.dir
                    [] hasWorkspace    -> "wsRel"
                    [] OTHER           -> "cwd"
       IN ResolveExecutableFile(dir, sp.stem, sp.ext)

\* detectModeFromCommand: the lowercase base name decides, else fallback.
DetectModeFromCommand(cmd, fallback) ==
  CASE cmd.stem = "parusd" -> "direct"
    [] cmd.stem = "parusc" -> "driver"
    [] OTHER               -> fallback

\* buildExecutable plus the candidate's mode and reason.
Candidate(cmd, mode, reason) ==
  [command |-> cmd, mode |-> mode,
   args |-> IF mode = "driver" THEN <<"lsp", "--stdio">> ELSE <<"--stdio">>,
   cwd |-> hasWorkspace, reason |-> reason]

\* resolveLaunchCandidates.
ResolveLaunchCandidates ==
  IF serverPath.kind # "unset"
  THEN IF ResolveConfiguredCommand(serverPath) = NoFile
       THEN [status |-> "error", cands |-> <<>>]
       ELSE LET cmd  == ResolveConfiguredCommand(serverPath)
                mode == DetectModeFromCommand(cmd, serverMode)
            IN [status |-> "ok",
                cands |-> <<Candidate(cmd, mode, IF mode # serverMode THEN "corrected" ELSE "none")>>]
  ELSE IF serverMode = "direct"
  THEN [status |-> "ok",
        cands |-> IF ResolveAutoCommand("parusd") = NoFile THEN <<>>
                  ELSE <<Candidate(ResolveAutoCommand("parusd"), "direct", "none")>>]
  ELSE LET driver == ResolveAutoCommand("parusc")
           direct == ResolveAutoCommand("parusd")
       IN [status |-> "ok",
           cands |-> (IF driver = NoFile THEN <<>> ELSE <<Candidate(driver, "driver", "none")>>)
                     \o (IF direct = NoFile THEN <<>> ELSE <<Candidate(direct, "direct", "fallback")>>)]

-----------------------------------------------------------------------------

Init ==
  /\ serverPath \in ServerPaths
  /\ serverMode \in Modes
  /\ hasWorkspace \in BOOLEAN
  /\ pathDirs \in PathValues
  /\ win32 \in BOOLEAN
  /\ exec = {}
  /\ dialog = "closed"
  /\ items = NoItems
  /\ dialogMode = "none"
  /\ picked = NoPick

\* A binary is built (made executable) or deleted.
ToggleFile(f) ==
  /\ exec' = IF f \in exec THEN exec \ {f} ELSE exec \cup {f}
  /\ UNCHANGED <<serverPath, serverMode, hasWorkspace, pathDirs, win32, flowVars>>

\* The user edits parus.server.path or parus.server.mode (readConfig).
SetServerPath(p) ==
  /\ serverPath' = p
  /\ picked' = NoPick
  /\ UNCHANGED <<serverMode, hasWorkspace, pathDirs, win32, exec, dialog, items, dialogMode>>

SetServerMode(m) ==
  /\ serverMode' = m
  /\ picked' = NoPick
  /\ UNCHANGED <<serverPath, hasWorkspace, pathDirs, win32, exec, dialog, items, dialogMode>>

-----------------------------------------------------------------------------
(* The Configure Server Path command (configureServerPathFromStatusBar,    *)
(* pickExecutableWithFinder, applyServerPathConfig: 467-633).  Its writes  *)
(* are applied at once here; how their change events race the handler is  *)
(* ConfigRaceGuard.                                                        *)

\* The server.path string written for a resolved file: its absolute path,
\* or a bare name that PATH did not resolve.
PathOf(f) ==
  IF f.dir = "bare" THEN [kind |-> "bare", dir |-> "none", stem |-> f.stem, ext |-> f.ext]
  ELSE [kind |-> "abs", dir |-> f.dir, stem |-> f.stem, ext |-> f.ext]

\* The quick pick, Finder dialog or input box is dismissed, or the path
\* typed does not resolve and the command's catch reports it.
Close ==
  /\ dialog' = "closed"
  /\ items' = NoItems
  /\ dialogMode' = "none"

\* applyServerPathConfig(path, mode): server.path, then server.mode.
ApplyServerPathConfig(path, mode, pick) ==
  /\ Close
  /\ serverPath' = path
  /\ serverMode' = mode
  /\ picked' = pick
  /\ UNCHANGED <<hasWorkspace, pathDirs, win32, exec>>

Apply(f, mode) == ApplyServerPathConfig(PathOf(f), mode, [file |-> f, mode |-> mode])
ApplyAuto == ApplyServerPathConfig(Unset, "driver", NoPick)

\* The command reads the settings and the workspace build, then shows
\* the quick pick: automatic search, the workspace parusc and parusd that
\* exist, Finder, or a typed path.
ConfigureOpen ==
  /\ dialog = "closed"
  /\ dialog' = "picking"
  /\ items' = [parusc |-> ResolveFromWorkspaceBuild("parusc"),
               parusd |-> ResolveFromWorkspaceBuild("parusd")]
  /\ dialogMode' = serverMode
  /\ UNCHANGED <<serverPath, serverMode, hasWorkspace, pathDirs, win32, exec, picked>>

Cancel ==
  /\ dialog # "closed"
  /\ Close
  /\ UNCHANGED <<serverPath, serverMode, hasWorkspace, pathDirs, win32, exec, picked>>

PickAuto ==
  /\ dialog = "picking"
  /\ ApplyAuto

\* Mutant of WorkspacePickMode (PickLaunched): both workspace items are
\* written with the driver mode.
WorkspacePickModeDriver(stem) == "driver"

\* The mode written with the workspace parusc (driver) or parusd (direct).
WorkspacePickMode(stem) == IF stem = "parusc" THEN "driver" ELSE "direct"

\* The workspace binary found when the dialog opened, executable or not
\* by now.
PickWorkspace(stem) ==
  /\ dialog = "picking"
  /\ items[stem] # NoFile
  /\ Apply(items[stem], WorkspacePickMode(stem))

\* Finder or a typed path is chosen; the items are not looked at again.
GoTo(d) ==
  /\ dialog = "picking"
  /\ dialog' = d
  /\ items' = NoItems
  /\ UNCHANGED <<serverPath, serverMode, hasWorkspace, pathDirs, win32, exec,
                 dialogMode, picked>>

\* Finder returns a file; resolveExecutableFile must accept it, else the
\* error is shown and nothing is written.  The mode is the name's, or the
\* one read when the dialog opened.
FinderSelect(f) ==
  /\ dialog = "finder"
  /\ LET r == ResolveExecutableFile(f.dir, f.stem, f.ext)
     IN IF r = NoFile
        THEN Close /\ UNCHANGED <<serverPath, serverMode, hasWorkspace, pathDirs, win32,
                                  exec, picked>>
        ELSE Apply(r, DetectModeFromCommand(r, dialogMode))

\* A typed path: empty is automatic search; otherwise resolveConfiguredCommand,
\* whose throw the command's catch reports.
InputSubmit(sp) ==
  /\ dialog = "input"
  /\ IF sp.kind = "unset" THEN ApplyAuto
     ELSE LET r == ResolveConfiguredCommand(sp)
          IN IF r = NoFile
             THEN Close /\ UNCHANGED <<serverPath, serverMode, hasWorkspace, pathDirs,
                                       win32, exec, picked>>
             ELSE Apply(r, DetectModeFromCommand(r, dialogMode))

Next ==
  \/ \E f \in Files : ToggleFile(f)
  \/ \E p \in ServerPaths : SetServerPath(p)
  \/ \E m \in Modes : SetServerMode(m)
  \/ ConfigureOpen \/ Cancel \/ PickAuto \/ GoTo("finder") \/ GoTo("input")
  \/ \E stem \in {"parusc", "parusd"} : PickWorkspace(stem)
  \/ \E f \in Files : FinderSelect(f)
  \/ \E sp \in ServerPaths : InputSubmit(sp)

Spec == Init /\ [][Next]_vars

-----------------------------------------------------------------------------
(* The resolution rules of spec 4.1, stated over sets of files.            *)

\* Names a search for stem accepts: the name itself and, on win32, .exe.
SpecNames(stem, ext) ==
  {[stem |-> stem, ext |-> ext]} \cup
  (IF win32 THEN {[stem |-> stem, ext |-> ".exe"]} ELSE {})

\* Search precedence of a directory: the workspace build directories
\* before PATH, PATH in its order; a plain name before its .exe form.
\* The one directory an explicit path names needs no rank.
SpecRank(f) ==
  LET dirRank == CASE f.dir = "wsCompiler" -> 1
                   [] f.dir = "wsBuild"    -> 2
                   [] f.dir \in ToSet(pathDirs) ->
                        2 + CHOOSE i \in DOMAIN pathDirs :
                              pathDirs[i] = f.dir /\ \A j \in 1..i-1 : pathDirs[j] # f.dir
                   [] OTHER -> 0
  IN 2 * dirRank + (IF f.ext = ".exe" THEN 1 ELSE 0)

\* The executable of highest precedence among dirs named stem, or NoFile.
SpecFind(dirs, stem, ext) ==
  LET found == {f \in exec : f.dir \in dirs /\ [stem |-> f.stem, ext |-> f.ext] \in SpecNames(stem, ext)}
  IN IF found = {} THEN NoFile
     ELSE CHOOSE f \in found : \A g \in found : SpecRank(f) <= SpecRank(g)

SpecWorkspaceDirs == IF hasWorkspace THEN {"wsCompiler", "wsBuild"} ELSE {}

\* Spec 4.1: rule 1 (explicit path: one candidate or ResolutionError),
\* rule 2 (direct: parusd only), rule 3 (driver: parusc, then parusd as
\* fallback whether or not parusc was found), mode inference by name.
SpecResolution ==
  LET Cand(f, mode, reason) ==
        [command |-> f, mode |-> mode,
         args |-> IF mode = "driver" THEN <<"lsp", "--stdio">> ELSE <<"--stdio">>,
         cwd |-> hasWorkspace, reason |-> reason]
      Auto(stem) == LET ws == SpecFind(SpecWorkspaceDirs, stem, "")
                    IN IF ws # NoFile THEN ws ELSE SpecFind(ToSet(pathDirs), stem, "")
      Opt(f, mode, reason) == IF f = NoFile THEN <<>> ELSE <<Cand(f, mode, reason)>>
  IN IF serverPath.kind # "unset"
     THEN LET dirs == CASE serverPath.kind = "bare" -> ToSet(pathDirs)
                        [] serverPath.kind = "abs"  -> {serverPath.dir}
                        [] hasWorkspace             -> {"wsRel"}
                        [] OTHER                    -> {"cwd"}
              f    == SpecFind(dirs, serverPath.stem, serverPath.ext)
              mode == CASE f.stem = "parusd" -> "direct"
                        [] f.stem = "parusc" -> "driver"
                        [] OTHER             -> serverMode
          IN IF f = NoFile THEN [status |-> "error", cands |-> <<>>]
             ELSE [status |-> "ok",
                   cands |-> <<Cand(f, mode, IF mode # serverMode THEN "corrected" ELSE "none")>>]
     ELSE IF serverMode = "direct"
     THEN [status |-> "ok", cands |-> Opt(Auto("parusd"), "direct", "none")]
     ELSE [status |-> "ok",
           cands |-> Opt(Auto("parusc"), "driver", "none") \o Opt(Auto("parusd"), "direct", "fallback")]

-----------------------------------------------------------------------------
(* Properties.                                                             *)

\* What resolveLaunchCandidates returns is what the rules of spec 4.1
\* give for the same settings and files: the same candidates in the same
\* order, with the same commands, modes, arguments and reasons, and a
\* ResolutionError exactly when an explicit server.path does not resolve.
ResolverMatchesSpec == ResolveLaunchCandidates = SpecResolution

\* What Configure Server Path writes is what the next start launches: once
\* the command has written a binary that is still executable, resolution
\* returns that binary as the only candidate, in the mode written and
\* with no correction, whichever item, file or typed path it came from and
\* however the settings and files changed while the dialog was open.
PickLaunched ==
  (picked # NoPick /\ picked.file \in exec) =>
    LET result == ResolveLaunchCandidates
    IN /\ result.status = "ok"
       /\ Len(result.cands) = 1
       /\ result.cands[1].command = picked.file
       /\ result.cands[1].mode = picked.mode
       /\ result.cands[1].reason = "none"
====
