------------------------------- MODULE MCCasting -------------------------------
(* Three requests, the third one a deletion of a template at most, on a    *)
(* studio that is new or has its built-in templates; an asset and a        *)
(* project of two things; one shot and cells of two assets and two names.  *)
EXTENDS Casting

CONSTANTS r1, r2, r3, char, shot, model, rig, hero, film, s1, mug

MCRequests == {r1, r2, r3}
MCCasters == {r1, r2}
MCSends == [r \in MCRequests |-> IF r = r3 THEN {"delete"} ELSE {"list", "create", "patch", "delete", "new", "apply"}]
MCKinds == {char, shot}
MCEntityKind == [k \in MCKinds |-> IF k = shot THEN "shot" ELSE "asset"]
MCTypes == {model, rig}
MCBuiltIns == <<[kind |-> char, steps |-> {model}, default |-> TRUE],
                [kind |-> shot, steps |-> {rig}, default |-> TRUE]>>
MCCustom == {{model, rig}}
MCEntities == {hero, film}
MCProjects == {film}
MCTree == [e \in MCEntities |-> IF e = film THEN <<shot, char>> ELSE <<char>>]

MCShots == {s1}
MCAssets == {hero, mug}
MCNames == {"", "2"}
MCCasts == {<<>>, <<<<hero, "">>, <<mug, "">>>>, <<<<mug, "">>, <<hero, "">>, <<mug, "">>>>}
MCGrids == {[off |-> <<<<s1, mug>>, <<s1, hero>>>>, on |-> <<>>],
            [off |-> <<<<s1, mug>>>>, on |-> <<<<s1, hero>>>>],
            [off |-> <<>>, on |-> <<<<s1, mug>>, <<s1, hero>>>>]}
MCInitial == {[cell |-> <<s1, hero, "">>, by |-> None, order |-> 1],
              [cell |-> <<s1, mug, "2">>, by |-> None, order |-> 2]}
=============================================================================
