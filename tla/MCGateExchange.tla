--------------------------- MODULE MCGateExchange ----------------------------
(***************************************************************************)
(* Two Hooks and one daemon, with proposals that the rules of GateRules     *)
(* judge, and those rules against a reference over a bounded set of         *)
(* commands and paths.                                                      *)
(***************************************************************************)
EXTENDS GateExchange, Sequences, SequencesExt

Rules == INSTANCE GateRules WITH
    Up <- "up", Dotted <- "..cache", Manifests <- {"manifest"},
    ScratchRoots <- {<<"tmp">>}

W(words) == [i \in 1 .. Len(words) |-> Rules!Word(words[i])]
Command(words) == Rules!Parsed(W(words))
Script(command) == Rules!Parsed(W(<<"sh", "-c">>) \o <<Rules!Quoted(command)>>)
Runs(command) == [has_command |-> TRUE, command |-> command, files |-> <<>>]
Touches(paths) == [has_command |-> FALSE, command |-> Command(<<>>), files |-> paths]

(*************************** the exchange's inputs **************************)

GateOf(rooted, root, siblings, dependencies, forbidden) ==
    [rooted |-> rooted, root |-> root, workspace_roots |-> siblings,
     block_dependency_changes |-> dependencies, forbidden_paths |-> forbidden]

Open == [gate |-> GateOf(TRUE, <<"w", "a">>, <<>>, FALSE, {}), observe |-> FALSE]
Strict == [Open EXCEPT !.gate.block_dependency_changes = TRUE]
Shadow == [Strict EXCEPT !.observe = TRUE]
MCPolicies == {Open, Strict, Shadow}

Edit == Touches(<<Rules!Relative(<<"manifest">>)>>)
Large == Runs(Command(<<"rm", "/">>))
MCProposals == {Edit, Large}
Dotted == Touches(<<Rules!Relative(<<"..cache", "b">>)>>)
DottedProposals == {Dotted}
MCObserves(policy) == policy.observe
MCOversized(proposal) == proposal = Large
Answer(d) == IF ~d.allowed THEN "deny" ELSE IF d.rule # "none" THEN "uncertain" ELSE "allow"
Verdicts == [policy \in MCPolicies |-> [proposal \in MCProposals \cup DottedProposals |->
               Answer(Rules!Check(policy.gate, proposal))]]
MCVerdict(policy, proposal) == Verdicts[policy][proposal]

\* Build 2 speaks a protocol build 1 does not know.
MCProtocol(build) == IF build = 1 THEN 1 ELSE 2
MCPeers(build) == MCProtocol(build) .. MCProtocol(build)

(******************************* the reference ******************************)

\* The tokens of a command, read by position: where a simple command ends, and
\* where it begins.
Separator(t) == t.word \in Rules!ChainSeparators \cup Rules!PipeSeparators
Together(s, i, j) == i <= j /\ \A k \in i .. j : ~Separator(s[k])
Begins(s, i) == ~Separator(s[i]) /\ (i = 1 \/ Separator(s[i - 1]))

RECURSIVE Destructive(_)
Destructive(command) ==
    LET s == command.tokens
        With(i, words) == \E j \in (i + 1) .. Len(s) : Together(s, i, j) /\ s[j].word \in words
        Stage(i) == {j \in i .. Len(s) : Together(s, i, j)}
        Git(i) == Rules!Subcommand(SubSeq(s, i + 1, i + Cardinality(Stage(i)) - 1))
        Follows(words, given) == \E j \in 2 .. Len(words) : words[j].word \in given
    IN  IF ~command.parses THEN command.raw # "none"
        ELSE \E i \in 1 .. Len(s) :
               \/ s[i].word = "mkfs" \/ s[i].word = "of=/dev/"
               \/ s[i].word = "rm" /\ With(i, Rules!CatastrophicTargets)
               \/ /\ s[i].word = "git"
                  /\ Git(i) # <<>>
                  /\ \/ Git(i)[1].word = "reset" /\ Follows(Git(i), {"--hard"})
                     \/ Git(i)[1].word = "clean" /\ Follows(Git(i), {"--force", "-f", "-rf"})
                     \/ Git(i)[1].word = "push" /\ Follows(Git(i), {"--force", "-f"})
               \/ /\ s[i].word \in Rules!Shells
                  /\ \E j \in (i + 1) .. (Len(s) - 1) :
                       /\ s[j].word = "-c" /\ Together(s, i, j + 1)
                       /\ \A k \in (i + 1) .. (j - 1) : s[k].word # "-c"
                       /\ Destructive(s[j + 1].script)
               \/ /\ s[i].word \in Rules!Fetchers /\ Begins(s, i)
                  /\ \E j \in (i + 1) .. Len(s) :
                       /\ s[j].word \in Rules!Shells /\ Begins(s, j)
                       /\ \A k \in i .. j : s[k].word \notin Rules!ChainSeparators

\* A path, walked name by name from the workspace.
Walk(from, names) ==
    FoldLeft(LAMBDA at, name : IF name # "up" THEN Append(at, name)
                               ELSE IF at = <<>> THEN at ELSE Front(at), from, names)

\* The directories a file may be written in: the workspace and the projects of
\* the declared roots; then the scratch directories.
Homes(gate, place) ==
    {home \in {gate.root} \cup {SubSeq(place, 1, Len(r) + 1) : r \in
                                  {r \in ToSet(gate.workspace_roots) : Len(place) > Len(r) + 1}} :
       /\ IsPrefix(home, place)
       /\ home = gate.root \/ Front(home) \in ToSet(gate.workspace_roots)}

Forbidden(gate, home, place) ==
    \/ gate.block_dependency_changes /\ place # home /\ Last(place) = "manifest"
    \/ \E p \in gate.forbidden_paths :
         IF p.under THEN Len(place) > Len(home) + 1 /\ place[Len(home) + 1] = p.name
         ELSE place # home /\ Last(place) = p.name

\* Without a workspace only a relative path can be judged.
Climbs(names) ==
    \E k \in 1 .. Len(names) :
        2 * Cardinality({i \in 1 .. k : names[i] = "up"}) > k

\* Where a path leads, and the home it is judged in: the workspace, then the first
\* declared root.
Place(gate, path) == Walk(IF path.abs \/ ~gate.rooted THEN <<>> ELSE gate.root, path.names)
Home(gate, homes) == IF gate.root \in homes THEN gate.root ELSE CHOOSE h \in homes : TRUE

Refused(gate, path) ==
    LET place == Place(gate, path)
        homes == Homes(gate, place)
    IN  IF ~gate.rooted
        THEN ~path.abs /\ (Climbs(path.names) \/ Forbidden(gate, <<>>, place))
        ELSE IF homes # {} THEN Forbidden(gate, Home(gate, homes), place)
        ELSE IF Head(place \o <<"">>) = "tmp"
        THEN \/ gate.block_dependency_changes /\ Last(place) = "manifest"
             \/ \E p \in gate.forbidden_paths : ~p.under /\ Last(place) = p.name
        ELSE TRUE

\* The path stays at home, under a name there that begins with two dots.
TwoDots(gate, path) ==
    LET place == Place(gate, path)
        homes == Homes(gate, place)
        home == IF gate.rooted THEN Home(gate, homes) ELSE <<>>
    IN  /\ IF gate.rooted THEN homes # {} ELSE ~path.abs
        /\ Len(place) > Len(home) /\ place[Len(home) + 1] = "..cache"

(********************************** bounds **********************************)

Vocabulary == {"rm", "/", "git", "-C", "clean", "-f", "sh", "-c", "curl", "|", ";", "ls"}
Short == {Command(s) : s \in UNION {[1 .. n -> Vocabulary] : n \in 0 .. 3}}
Long == {Command(<<a, b, c, "/", d>>) : a \in {"rm", "git", "ls"}, b \in {"-C", "-f", "|"},
                                        c \in {"ls", "clean", "rm"}, d \in {"-f", ";"}}
Pairs == {Command(<<"git", a, b, c, d>>) : a \in {"-C", "-f"}, b \in {"-C", "x"},
                                          c \in {"push", "reset"}, d \in {"--hard", "--force", "-f"}}
Texts == {Rules!Unparsed("none"), Rules!Unparsed("rm_root")}
Nested == {Script(c) : c \in Short \cup Long \cup Texts}
Commands == Short \cup Long \cup Pairs \cup Texts \cup Nested
              \cup {Script(c) : c \in Nested}

Names == {"up", "w", "a", "b", "tmp", "manifest", "..cache", "secret"}
NameLists == UNION {[1 .. n -> Names] : n \in 1 .. 4}
Paths == {Rules!Relative(n) : n \in NameLists} \cup {Rules!Absolute(n) : n \in NameLists}
Gates == {GateOf(k, <<"w", "a">>, r, d, f) :
            k \in BOOLEAN, r \in {<<>>, << <<"w">> >>}, d \in BOOLEAN,
            f \in {{}, {[under |-> TRUE, name |-> "secret"], [under |-> FALSE, name |-> "b"]}}}

Anywhere == Open.gate
RulesAgree ==
    /\ \A c \in Commands : Rules!Check(Anywhere, Runs(c)).allowed = ~Destructive(c)
    /\ \A g \in Gates, p \in Paths :
          ~TwoDots(g, p) => Rules!Check(g, Touches(<<p>>)).allowed = ~Refused(g, p)

\* The Gate that gave a Hook its verdict denies a command exactly when
\* something it runs, at any depth of `sh -c`, is destructive, and a path
\* exactly when the place it names is outside every workspace and scratch
\* directory or protected there (gates.py: Gate.check).  Of the paths that stay
\* inside, those whose first name at home begins with two dots are excepted:
\* see InsideIsAllowed.  RulesAgree is constant: TLC evaluates it once, over the
\* bounds above.
VerdictIsReference == (\E h \in Hooks : hook[h].verdict # None) => RulesAgree

\* The documented rule of the Gate, "every pattern errs toward allowing": what a Hook
\* stops is destructive, or outside, or protected.
InsideIsAllowed ==
    \A h \in Hooks :
        hook[h].answer = "deny" =>
            \/ Destructive(hook[h].proposal.command)
            \/ \E p \in ToSet(hook[h].proposal.files) : Refused(hook[h].policy.gate, p)
=============================================================================
