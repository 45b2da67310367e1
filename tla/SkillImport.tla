---------------------------- MODULE SkillImport ----------------------------
(***************************************************************************)
(* The upload of a skill (plugin_runtime/skill_loader.py, upload_skill in  *)
(* api/routes/skills.py, import_system_skill in                            *)
(* plugin_runtime/service.py): the files are written to a temporary        *)
(* directory, sorted into the layout of a skill, SKILL.md is composed,     *)
(* perhaps by the model, and the result is copied below the skills         *)
(* directory, unless a skill of that name has come there meanwhile.        *)
(*                                                                         *)
(* A path is a sequence of names.  A copy is a path and a number: 1 is the *)
(* name itself, n the name with -n.  What the texts say is left out, but   *)
(* for the paths that they name.                                           *)
(***************************************************************************)
EXTENDS Integers, Sequences, SequencesExt, FiniteSets, FiniteSetsExt

CONSTANTS
  Uploadable,      \* the files that may be uploaded, in the order of their paths:
                   \* a sequence of [path, kind]
  Clean,           \* _sanitize_path_part, a function on their names
  MaxUploadFiles   \* MAX_UPLOAD_FILES

VARIABLES
  uploaded,   \* the request's files
  step,       \* where the request is
  written,    \* the files in the temporary directory
  copies,     \* _copy_resources: file |-> copy
  body,       \* SKILL.md: the copies it lists, the wrapper it names
  installed,  \* what is below the skills directory
  taken       \* another skill has the name

importVars == <<uploaded, step, written, copies, body, installed, taken>>

(* Suffixes and names, by what becomes of them.                            *)
Kind == {"skill", "markdown", "text", "script", "asset", "resource", "other"}
IgnoredName == {"build", "dist", "node_modules", "__pycache__", ".git"}
Document == {"skill", "markdown", "text"}
Root ==
  [k \in Kind \ {"other"} |->
     CASE k \in Document -> "references" [] k = "script" -> "scripts"
       [] k = "asset" -> "assets"       [] k = "resource" -> "resources"]
PreserveRoots ==
  [k \in Kind \ {"other"} |->
     CASE k \in Document -> {"references", "templates"} [] k = "script" -> {"scripts"}
       [] k = "asset" -> {"assets"}
       [] k = "resource" -> {"agents", "data", "docs", "examples", "resources", "scripts",
                             "templates"}]

(* The names to ignore have no suffix that may be uploaded.                *)
ASSUME UploadAssumption ==
  /\ Uploadable \in Seq([path : Seq(STRING) \ {<< >>}, kind : Kind])
  /\ \A i \in DOMAIN Uploadable : \A j \in DOMAIN Uploadable[i].path :
       /\ Clean[Uploadable[i].path[j]] \in STRING
       /\ j = Len(Uploadable[i].path) /\ Uploadable[i].path[j] \in IgnoredName
          => Uploadable[i].kind = "other"

ToSkip(f) == \E i \in 1 .. Len(f.path) - 1 : f.path[i] \in IgnoredName
File(path, n) == [path |-> path, n |-> n]
SkillDocument == File(<<"SKILL.md">>, 1)
Wrapper == <<"scripts", "run_python.py">>

-----------------------------------------------------------------------------
(* _write_upload_files and _select_input_root.  A path that comes twice is *)
(* refused as well: the files are a set.                                   *)
Refused ==
  \/ Cardinality(uploaded) > MaxUploadFiles
  \/ \E f \in uploaded : ~ ToSkip(f) /\ f.kind = "other"
  \/ \A f \in uploaded : ToSkip(f)

(* The only directory, when there is nothing else, is the root.            *)
Relative(f, fs) ==
  IF /\ \A g, h \in fs : g.path[1] = h.path[1]
     /\ \A g \in fs : Len(g.path) > 1
  THEN Tail(f.path)
  ELSE f.path

InOrder(fs) == SelectSeq(Uploadable, LAMBDA f : f \in fs)

(* The file that SKILL.md is made of, as a set of at most one.             *)
Source(fs) ==
  LET first(k) == LET of == SelectSeq(InOrder(fs), LAMBDA f : f.kind = k)
                  IN  IF of = << >> THEN {} ELSE {Head(of)}
      atRoot == {f \in fs : Relative(f, fs) = <<"SKILL.md">>}
  IN  CASE atRoot # {} -> atRoot
        [] atRoot = {} /\ first("skill") # {} -> first("skill")
        [] OTHER -> first("markdown")
PackageMode(fs) == \E f \in Source(fs) : f.kind = "skill"

TargetRelative(f, fs) ==
  LET raw == Relative(f, fs)
      parts == [i \in DOMAIN raw |-> Clean[raw[i]]]
  IN  CASE PackageMode(fs) -> raw
        [] ~ PackageMode(fs) /\ parts[1] \in PreserveRoots[f.kind] -> parts
        [] OTHER -> <<Root[f.kind]>> \o parts

UniqueTarget(path, existing) ==
  File(path, Min({n \in 1 .. Cardinality(existing) + 1 : File(path, n) \notin existing}))

(* variant: a file of the same path is written over *)
CopyOver(f, fs, done) ==
  [g \in DOMAIN done \cup {f} |-> IF g = f THEN File(TargetRelative(f, fs), 1) ELSE done[g]]

Copied(done) == {done[g] : g \in DOMAIN done}

Copy(f, fs, done) ==
  [g \in DOMAIN done \cup {f} |-> IF g = f THEN UniqueTarget(TargetRelative(f, fs), Copied(done))
                                  ELSE done[g]]

CopyResources(fs) ==
  FoldLeft(LAMBDA done, f : IF f \in fs \ Source(fs) THEN Copy(f, fs, done) ELSE done,
           << >>, Uploadable)

-----------------------------------------------------------------------------
Upload ==
  /\ step = "new"
  /\ IF Refused
     THEN step' = "refused" /\ UNCHANGED <<written, copies, body>>
     ELSE /\ written' = {f \in uploaded : ~ ToSkip(f)}
          /\ step' = IF PackageMode(written') THEN "prepared" ELSE "optimizing"
          /\ copies' = CopyResources(written')
          /\ body' = [lists |-> IF PackageMode(written') THEN {}
                                ELSE Copied(copies'),
                      wrapper |-> {}]
  /\ UNCHANGED <<uploaded, installed, taken>>

(* The model's body, which need not keep the list, or the composed one     *)
(* when there is no model or its answer is of no use.                      *)
Optimized ==
  /\ step = "optimizing"
  /\ step' = "prepared"
  /\ \E lists \in {body.lists, {}} :
       body' = [lists |-> lists,
                wrapper |-> IF \A f \in DOMAIN copies : f.kind # "script" THEN {}
                            ELSE {UniqueTarget(Wrapper, Copied(copies))}]
  /\ UNCHANGED <<uploaded, written, copies, installed, taken>>

Normalized ==
  Copied(copies) \cup {SkillDocument} \cup body.wrapper
  \cup (IF body.wrapper = {} THEN {} ELSE {File(<<"requirements.txt">>, 1)})

(* The copy leaves out what has an ignored name, at any level.             *)
HasIgnored(c) ==
  \E i \in DOMAIN c.path : c.path[i] \in IgnoredName /\ (i < Len(c.path) \/ c.n = 1)

Import ==
  /\ step = "prepared"
  /\ IF taken
     THEN step' = "refused" /\ UNCHANGED installed
     ELSE /\ step' = "installed"
          /\ installed' = {c \in Normalized : ~ HasIgnored(c)}
  /\ UNCHANGED <<uploaded, written, copies, body, taken>>

(* Another request creates a skill of that name.                           *)
AnotherSkill ==
  /\ ~ taken /\ step # "installed"
  /\ taken' = TRUE
  /\ UNCHANGED <<uploaded, step, written, copies, body, installed>>

ImportInit ==
  /\ uploaded \in UNION {kSubset(k, ToSet(Uploadable)) : k \in 1 .. MaxUploadFiles + 1}
  /\ step = "new" /\ taken = FALSE
  /\ written = {} /\ copies = << >> /\ installed = {}
  /\ body = [lists |-> {}, wrapper |-> {}]

ImportNext == Upload \/ Optimized \/ Import \/ AnotherSkill
ImportSpec == ImportInit /\ [][ImportNext]_importVars

-----------------------------------------------------------------------------
(* No file of an upload is lost: when the request has succeeded, each file *)
(* that was not skipped is SKILL.md's source or has a file of its own in   *)
(* the skill, apart from SKILL.md and the generated ones, and SKILL.md     *)
(* names only files that are there (_unique_target and the order of the    *)
(* writes in prepare_upload).  The exception is a directory that gets an   *)
(* ignored name by the cleaning of its own, after the skipping.            *)
NothingLost ==
  step = "installed" =>
    LET kept == {f \in DOMAIN copies : ~ HasIgnored(copies[f])}
    IN  /\ DOMAIN copies = written \ Source(written)
        /\ \A f \in kept :
             /\ copies[f] \in installed \ ({SkillDocument} \cup body.wrapper)
             /\ \A g \in kept \ {f} : copies[g] # copies[f]
        /\ body.wrapper \cup {c \in body.lists : ~ HasIgnored(c)} \subseteq installed
        /\ \A f \in DOMAIN copies \ kept :
             ~ PackageMode(written) /\ \E i \in DOMAIN f.path : Clean[f.path[i]] # f.path[i]

(* The inductive invariant behind it: what has been accepted, and where    *)
(* its copies are.                                                         *)
ImportInv ==
  /\ uploaded \subseteq ToSet(Uploadable)
  /\ step \in {"new", "refused", "optimizing", "prepared", "installed"}
  /\ step \in {"optimizing", "prepared", "installed"} =>
       /\ written = {f \in uploaded : ~ ToSkip(f)} /\ \A f \in written : f.kind # "other"
       /\ copies = CopyResources(written)
       /\ body.lists \subseteq Copied(copies)
       /\ body.wrapper \subseteq {UniqueTarget(Wrapper, Copied(copies))}
  /\ step = "installed" => installed = {c \in Normalized : ~ HasIgnored(c)}
=============================================================================
