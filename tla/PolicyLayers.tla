------------------------------ MODULE PolicyLayers ------------------------------
(***************************************************************************)
(* How the policy of a run comes about: the layers of the configuration    *)
(* are merged (src/src/config/mod.rs), their policy files are added one    *)
(* after the other to a policy set, and the set is asked about subjects    *)
(* (src/src/policies/mod.rs).  The criteria a rule may have all work alike *)
(* and are represented by actions, paths, branches and the size of a diff. *)
(***************************************************************************)
EXTENDS Naturals, Sequences, SequencesExt

CONSTANTS
  Files,      \* policy files, the built-in policy among them
  Builtin,
  Rules,      \* the rules a file may hold
  None

VARIABLES
  layers,     \* what the global and the project configuration say of the policy
  content,    \* what is in the files
  stage, todo,                 \* sources still to add
  rules, default, sources      \* PolicySet

vars == <<layers, content, stage, todo, rules, default, sources>>

Decision == {"allow", "require_approval", "deny"}
Rank == [allow |-> 0, require_approval |-> 1, deny |-> 2]
Strictest(D) == CHOOSE d \in D : \A e \in D : Rank[e] <= Rank[d]

Actions == {"write", "push"}
Paths == {"code", "secret"}
Branches == {"mine", "main"}
Rule == [actions : SUBSET Actions, paths : SUBSET Paths, exclude : SUBSET Paths,
         branches : SUBSET Branches, least : Nat, decision : Decision]
Subject == [action : Actions \cup {None}, path : Paths \cup {None},
            branch : Branches \cup {None}, size : 0..1]

\* builtin: builtin_default, where the layer mentions it.
Layer == [files : Seq(Files), builtin : BOOLEAN \cup {None}, replace : BOOLEAN]
LayerNames == {"global", "project"}
\* A file that cannot be read, does not parse or repeats a rule id is broken.
File == [broken : BOOLEAN, default : Decision \cup {None}, rules : SUBSET Rule]

\* The built-in policy keeps automation away from secrets and asks before it pushes.
Rl(actions, paths, decision) ==
  [actions |-> actions, paths |-> paths, exclude |-> {}, branches |-> {}, least |-> 0,
   decision |-> decision]
DefaultPolicy ==
  [broken |-> FALSE, default |-> "allow",
   rules |-> {Rl({}, {"secret"}, "deny"), Rl({"push"}, {}, "require_approval")}]

\* Any configuration with a file of the company in the global layer and one of the project.
Custom == Files \ {Builtin}
Contents ==
  {f \in [broken : BOOLEAN, default : {None, "allow", "deny"},
          rules : {{}} \cup {{r} : r \in Rules}] : f.broken => f.default = None /\ f.rules = {}}
Init ==
  /\ \E own \in [Custom -> Contents] :
       content = [f \in Files |-> IF f = Builtin THEN DefaultPolicy ELSE own[f]]
  /\ layers \in
       [LayerNames -> [files : {<<>>, SetToSeq(Custom)} \cup {<<f>> : f \in Custom},
                       builtin : BOOLEAN \cup {None}, replace : BOOLEAN]]
  /\ layers["global"].replace = FALSE
  /\ stage = "load" /\ todo = <<>>
  /\ rules = {} /\ default = "allow" /\ sources = <<>>

--------------------------------------------------------------------------------
Replaces == layers["project"].replace

\* config::load: a project that replaces drops the files of the layers before it, and
\* deep_merge concatenates policy.files and lets the later layer decide anything else.
MergedFiles ==
  (IF Replaces THEN <<>> ELSE layers["global"].files) \o layers["project"].files

BuiltinDefault ==
  LET says == [l \in LayerNames |-> layers[l].builtin]
  IN IF says["project"] # None THEN says["project"] ELSE says["global"] # FALSE

\* The files in order, each once.
Deduped(seq) ==
  FoldLeft(LAMBDA done, f : IF Contains(done, f) THEN done ELSE Append(done, f), <<>>, seq)

Load ==
  /\ stage = "load"
  /\ todo' = (IF BuiltinDefault THEN <<Builtin>> ELSE <<>>) \o Deduped(MergedFiles)
  /\ stage' = "add"
  /\ UNCHANGED <<layers, content, rules, default, sources>>

\* The sanity check of add(): a rule needs one of these criteria, others do not count.
MatchesEverything(r) == r.actions = {} /\ r.paths = {} /\ r.least = 0

\* A later file decides like an earlier one.
DefaultOfLast(d) == IF d = None THEN default ELSE d

\* The default the set has after a file: the first file sets it, later ones tighten it.
Default(d) ==
  IF d = None THEN default ELSE IF sources = <<>> THEN d ELSE Strictest({default, d})

\* policy_for: PolicySet::add and load_file, one source at a time
Add ==
  /\ stage = "add" /\ todo # <<>>
  /\ LET f == content[Head(todo)]
     IN \/ /\ ~f.broken /\ \A r \in f.rules : ~MatchesEverything(r)
           /\ rules' = rules \cup f.rules
           /\ default' = Default(f.default)
           /\ sources' = Append(sources, Head(todo))
           /\ todo' = Tail(todo)
           /\ UNCHANGED stage
        \/ /\ f.broken \/ \E r \in f.rules : MatchesEverything(r)
           /\ stage' = "failed"
           /\ UNCHANGED <<rules, default, sources, todo>>
  /\ UNCHANGED <<layers, content>>

Finish ==
  /\ stage = "add" /\ todo = <<>>
  /\ stage' = "ready"
  /\ UNCHANGED <<layers, content, todo, rules, default, sources>>

Next == Load \/ Add \/ Finish

Spec == Init /\ [][Next]_vars

--------------------------------------------------------------------------------
\* rule_matches: what the subject does not tell cannot match, except that it is not excluded.
Matches(r, s) ==
  /\ r.actions # {} => s.action \in r.actions
  /\ r.paths # {} => s.path \in r.paths
  /\ s.path \notin r.exclude
  /\ r.branches # {} => s.branch \in r.branches
  /\ s.size >= r.least

\* PolicySet::evaluate
Evaluate(s) ==
  LET matched == {r \in rules : Matches(r, s)}
  IN IF matched = {} THEN default ELSE Strictest({r.decision : r \in matched})

\* The files that count: the built-in policy, and those of every layer, the global ones
\* unless the project replaces them.
Kept ==
  (IF BuiltinDefault THEN {Builtin} ELSE {})
    \cup UNION {ToSet(layers[l].files) : l \in LayerNames \ (IF Replaces THEN {"global"} ELSE {})}

\* What files K say of a subject when they are taken together, whatever their order: the
\* strictest of the rules that match, and when none does the strictest of the defaults.
Speaking(K, s) == {r \in UNION {content[f].rules : f \in K} : Matches(r, s)}
Stated(K) == {content[f].default : f \in K} \ {None}
Told(K, s) ==
  IF Speaking(K, s) # {} THEN Strictest({r.decision : r \in Speaking(K, s)})
  ELSE Strictest({"allow"} \cup Stated(K))

\* The layering rules of docs/POLICY_ENGINE.md, as the code keeps them: a run that has its
\* policy has all the files that count, none of them broken, and each decision is what these
\* files say together, in whatever order the layers name them and whichever name them twice.
\* So whatever some of them decide of a subject the whole set decides no less strictly, where
\* one of their own rules speaks of it or where no rule at all does.  Where only the rules of
\* other files speak, these replace the default and may be laxer, although docs/
\* POLICY_ENGINE.md says of an added rule that it only makes things stricter.
PolicyAsLayered ==
  stage = "ready" =>
    /\ ToSet(sources) = Kept
    /\ \A f \in Kept : ~content[f].broken
    /\ \A s \in Subject :
         /\ Evaluate(s) = Told(Kept, s)
         /\ \A K \in SUBSET Kept :
              Speaking(K, s) # {} \/ Speaking(Kept, s) = {} => Rank[Told(K, s)] <= Rank[Evaluate(s)]
================================================================================
