------------------------------ MODULE GateRules ------------------------------
(***************************************************************************)
(* The deterministic Gate (gates.py): what it answers for one proposal.     *)
(*                                                                          *)
(* A command is what shlex leaves of it: a sequence of tokens, or text it   *)
(* cannot parse.  A token is a word of the vocabulary below, or a quoted    *)
(* string, which is one token and carries the command it would be if it     *)
(* were run.  A path is a sequence of names.  The Gate works through both   *)
(* in order and stops at the first rule that fires.                         *)
(***************************************************************************)
EXTENDS Integers, Sequences, SequencesExt

CONSTANTS
    Up,            \* the segment ".."
    Dotted,        \* a file name that begins with two dots, such as "..cache"
    Manifests,     \* _DEPENDENCY_MANIFESTS: names of dependency manifests
    ScratchRoots   \* _SCRATCH_ROOTS: absolute locations, sequences of names

Decision(allowed, rule) == [allowed |-> allowed, rule |-> rule]
Allow == Decision(TRUE, "none")
Deny(rule) == Decision(FALSE, rule)

(*************************** tokens and commands ***************************)

\* A word of a command, or a quoted script.  "script" is the command the
\* string holds: a word that is no script has NoScript there.
NoScript == [parses |-> FALSE, raw |-> "none", tokens |-> <<>>]
Word(w) == [word |-> w, script |-> NoScript]
Quoted(command) == [word |-> "quoted", script |-> command]
Parsed(tokens) == [parses |-> TRUE, raw |-> "none", tokens |-> tokens]
\* Unbalanced quotes; "raw" is the pattern of _DESTRUCTIVE_PATTERNS the text
\* matches as it stands, or "none".
Unparsed(raw) == [parses |-> FALSE, raw |-> raw, tokens |-> <<>>]

Shells == {"sh", "bash"}
Fetchers == {"curl", "wget"}
ChainSeparators == {";", "&&"}
PipeSeparators == {"|"}
Flags == {"-c", "-f", "-C", "--hard", "--force", "--force-with-lease", "-rf"}
GitValueOptions == {"-c", "-C"}
CatastrophicTargets == {"/", "~", ".."}

\* The groups between separators, the empty ones left out.
Split(tokens, separators) ==
    LET cuts == {i \in 1 .. Len(tokens) : tokens[i].word \in separators}
        ends == cuts \cup {Len(tokens) + 1}
        Start(e) == CHOOSE s \in {c + 1 : c \in cuts} \cup {1} :
                      s <= e /\ \A i \in s .. (e - 1) : i \notin cuts
        Group(e) == SubSeq(tokens, Start(e), e - 1)
    IN  SelectSeq([i \in 1 .. (Len(tokens) + 1) |->
                     IF i \in ends THEN Group(i) ELSE <<>>],
                  LAMBDA g : g # <<>>)

After(s, i) == SubSeq(s, i + 1, Len(s))
Words(s) == {s[i].word : i \in 1 .. Len(s)}

RmHitsCatastrophicTarget(rest) ==
    \E w \in Words(rest) : w \notin Flags /\ w \in CatastrophicTargets

\* Git's own options come before the subcommand, some with a value.
RECURSIVE Subcommand(_)
Subcommand(arguments) ==
    IF arguments = <<>> \/ Head(arguments).word \notin Flags THEN arguments
    ELSE Subcommand(After(arguments,
                          IF Head(arguments).word \in GitValueOptions
                          THEN IF Len(arguments) = 1 THEN 1 ELSE 2 ELSE 1))

GitDenies(words, rest) ==
    CASE words = <<>> -> "none"
      [] Head(words).word = "reset" /\ "--hard" \in rest -> "git_reset_hard"
      [] Head(words).word = "clean" /\ rest \cap {"--force", "-f", "-rf"} # {}
           -> "git_clean_force"
      [] Head(words).word = "push" /\ rest \cap {"--force", "-f"} # {}
           -> "git_push_force"
      [] OTHER -> "none"

GitRule(words) == GitDenies(words, Words(After(words, 1)))

\* The first member of a sequence of decisions that denies, else Allow.
FirstDenial(decisions) ==
    Head(Append(SelectSeq(decisions, LAMBDA d : ~d.allowed), Allow))

DenyIf(condition, rule) == IF condition THEN Deny(rule) ELSE Allow
Denial(rule) == IF rule = "none" THEN Allow ELSE Deny(rule)

\* `sh -c '<string>'` runs the string: what follows the first -c that has a
\* successor is judged as a command of its own.
ShellScript(rest) ==
    LET marks == {i \in 1 .. (Len(rest) - 1) : rest[i].word = "-c"}
    IN  IF marks = {} THEN NoScript
        ELSE rest[(CHOOSE i \in marks : \A j \in marks : i <= j) + 1].script

RECURSIVE CheckCommand(_)

\* Every token of the stage is looked at, not only the first: `sudo rm -rf /`.
CheckToken(word, rest) ==
    FirstDenial(
      << DenyIf(word = "rm" /\ RmHitsCatastrophicTarget(rest), "rm_root"),
         IF word = "git" THEN Denial(GitRule(Subcommand(rest))) ELSE Allow,
         IF word \in Shells THEN CheckCommand(ShellScript(rest)) ELSE Allow,
         DenyIf(word = "mkfs", "mkfs"),
         DenyIf(word = "of=/dev/", "dd_device") >>)

CheckStage(stage) ==
    FirstDenial([i \in 1 .. Len(stage) |-> CheckToken(stage[i].word, After(stage, i))])

\* Something downloaded reaches a shell further down the pipe.
FeedsShell(stages, i) ==
    /\ Head(stages[i]).word \in Fetchers
    /\ \E j \in (i + 1) .. Len(stages) : Head(stages[j]).word \in Shells

CheckPipeline(stages) ==
    FirstDenial([i \in 1 .. Len(stages) |->
                   IF FeedsShell(stages, i) THEN Deny("pipe_to_shell")
                   ELSE CheckStage(stages[i])])

CheckChains(chains) ==
    FirstDenial([i \in 1 .. Len(chains) |->
                   CheckPipeline(Split(chains[i], PipeSeparators))])

\* Text shlex cannot parse is matched as it stands, and passes annotated when
\* no pattern matches.
CheckCommand(command) ==
    IF command.parses
    THEN CheckChains(Split(command.tokens, ChainSeparators))
    ELSE IF command.raw = "none" THEN Decision(TRUE, "unparseable_command")
         ELSE Deny(command.raw)

(********************************** paths **********************************)

Absolute(names) == [abs |-> TRUE, names |-> names]
Relative(names) == [abs |-> FALSE, names |-> names]

\* posixpath.normpath: ".." takes back the name before it, stays at the top of
\* an absolute path and is kept at the front of a relative one.
Normal(path) ==
    LET Take(seen, name) ==
          IF name # Up THEN Append(seen, name)
          ELSE IF seen # <<>> /\ Last(seen) # Up THEN Front(seen)
          ELSE IF path.abs THEN seen ELSE Append(seen, name)
    IN  [path EXCEPT !.names = FoldLeft(Take, <<>>, path.names)]

\* path.startswith(".."), of the text: a name that begins with two dots is
\* taken for the segment "..".
LeadsUp(path) == ~path.abs /\ path.names # <<>> /\ Head(path.names) \in {Up, Dotted}

\* path == root or path.startswith(root + "/"); for the root "/" the prefix is
\* "//", which no path has.
Under(names, root) ==
    names = root \/ (root # <<>> /\ IsStrictPrefix(root, names))

\* The declared workspace that holds an absolute path is an immediate child of
\* the first of workspace_roots above it, with something inside it; how many
\* names of the path lead to it, 0 when there is none.
HoldingRoots(gate, names) ==
    SelectSeq(gate.workspace_roots,
              LAMBDA parent : /\ parent # <<>> /\ IsStrictPrefix(parent, names)
                              /\ Len(names) > Len(parent) + 1)
SiblingDepth(holding) == IF holding = <<>> THEN 0 ELSE Len(Head(holding)) + 1

IsScratch(names) == \E root \in ScratchRoots : Under(names, root)

\* A pattern is "<name>/*", or "*<name>", which fnmatch also matches across
\* the slashes of an absolute path.
Matches(path, pattern) ==
    IF pattern.under
    THEN ~path.abs /\ Len(path.names) > 1 /\ Head(path.names) = pattern.name
    ELSE path.names # <<>> /\ Last(path.names) = pattern.name

\* Mutant: a relative path is judged as it is spelled.
AsSpelled(gate, path) == path
\* A relative path that leads up is resolved against the workspace, if known:
\* "../../tmp/x" is the same scratch file as "/tmp/x".
Resolved(gate, path) ==
    IF LeadsUp(path) /\ gate.rooted THEN Normal(Absolute(gate.root \o path.names))
    ELSE path

\* What a path is judged as: relative to the workspace, or to the declared
\* workspace it is in, and absolute in the scratch directories.
Within(gate, path, sibling) ==
    IF ~path.abs THEN path
    ELSE IF Under(path.names, gate.root)
    THEN Relative(After(path.names, Len(gate.root)))
    ELSE IF sibling # 0 THEN Relative(After(path.names, sibling)) ELSE path

Placed(gate, path) == Within(gate, path, SiblingDepth(HoldingRoots(gate, path.names)))

Judge(gate, path) ==
    FirstDenial(
      << DenyIf(path.abs /\ ~IsScratch(path.names), "workspace_escape"),
         DenyIf(LeadsUp(path), "workspace_escape"),
         DenyIf(/\ gate.block_dependency_changes
                /\ path.names # <<>> /\ Last(path.names) \in Manifests,
                "dependency_change"),
         DenyIf(\E p \in gate.forbidden_paths : Matches(path, p), "forbidden_path") >>)

CheckResolved(gate, path) ==
    IF path.abs /\ ~gate.rooted THEN Decision(TRUE, "unknown_workspace")
    ELSE Judge(gate, Placed(gate, path))

CheckPath(gate, raw) == CheckResolved(gate, Resolved(gate, Normal(raw)))

\* The first denial, else the first note, else nothing to say.
Settled(decisions, notes) ==
    Head(SelectSeq(decisions, LAMBDA d : ~d.allowed)
           \o SelectSeq(notes, LAMBDA d : d.rule # "none") \o <<Allow>>)

Decided(decisions) == Settled(decisions, decisions)
CheckPaths(gate, paths) ==
    Decided([i \in 1 .. Len(paths) |-> CheckPath(gate, paths[i])])

\* A denial of the command comes first, its note last.
Weighed(command, files) == Settled(<<command, files>>, <<files, command>>)
Check(gate, proposal) ==
    Weighed(IF proposal.has_command THEN CheckCommand(proposal.command) ELSE Allow,
            CheckPaths(gate, proposal.files))

=============================================================================
