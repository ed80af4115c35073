--------------------------- MODULE MCMergeEffect ----------------------------
(***************************************************************************)
(* Instances of MergeEffect.  The target starts at commit 0, the merge     *)
(* commit of key k is k itself, 9 is a commit that no effect installs.     *)
(***************************************************************************)
EXTENDS MergeEffect, TLC

OwnCommit == (1 :> 1) @@ (2 :> 2)

\* Keys 1 and 2 are both prepared on commit 0, or key 2 on top of key 1's merge commit.
FlatBase == (1 :> 0) @@ (2 :> 0)
FlatContains == (0 :> {0}) @@ (1 :> {0, 1}) @@ (2 :> {0, 2}) @@ (9 :> {0, 9})
StackedBase == (1 :> 0) @@ (2 :> 1)
StackedContains == (0 :> {0}) @@ (1 :> {0, 1}) @@ (2 :> {0, 1, 2}) @@ (9 :> {0, 9})

SharedKeys == ("source" :> 1) @@ ("reproduction" :> 1) @@ ("other" :> 2)
\* A run and its reproduction share key 1, another run works on key 2; or two attempts of one
\* run, and another run.
Shared == ("a" :> "source") @@ ("c" :> "reproduction") @@ ("d" :> "other")
Twins == ("a" :> "source") @@ ("b" :> "source")
Pair == Twins @@ ("d" :> "other")

Racing ==
    [runOf |-> Shared, keyOf |-> SharedKeys, baseOf |-> FlatBase, contains |-> FlatContains,
     proven |-> {"a", "d"}, simulated |-> {}, forcedTo |-> {}, maxDisruptions |-> 1]
Simulating ==
    [runOf |-> Pair, keyOf |-> SharedKeys, baseOf |-> FlatBase, contains |-> FlatContains,
     proven |-> {"a", "b", "d"}, simulated |-> {2}, forcedTo |-> {}, maxDisruptions |-> 2]
Stacking ==
    [runOf |-> Pair, keyOf |-> SharedKeys, baseOf |-> StackedBase, contains |-> StackedContains,
     proven |-> {"a", "b", "d"}, simulated |-> {}, forcedTo |-> {}, maxDisruptions |-> 2]
Forced ==
    [runOf |-> Pair, keyOf |-> SharedKeys, baseOf |-> StackedBase, contains |-> StackedContains,
     proven |-> {"a", "b", "d"}, simulated |-> {}, forcedTo |-> {0, 9}, maxDisruptions |-> 1]

Situations == {Racing, Simulating, Stacking, Forced, [Forced EXCEPT !.runOf = Twins, !.maxDisruptions = 3]}
=============================================================================
