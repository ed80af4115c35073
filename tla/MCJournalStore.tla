--------------------------- MODULE MCJournalStore ---------------------------
(***************************************************************************)
(* Two kinds of histories: stores nothing damages, which two openers race  *)
(* to climb while a writer continues the story, and stores that lose one   *)
(* fact, judged by one opener that may be killed.                          *)
(***************************************************************************)
EXTENDS JournalStore

MCStories == DOMAIN Stories
World(s, builds, prefixes, damages, killed) ==
    {w \in [story : {s}, build : builds, prefix : prefixes, damage : {damages}, crashes : {killed}] :
        w.prefix <= Len(Stories[s]) /\ \A i \in 1 .. w.prefix : Writable(w.build, Stories[s][i])}

Raced == UNION {World(s, {0, 2, 3, 5, 6, 7, 9, 11}, {0, 3, 5, 7}, 0, 1) : s \in MCStories}
Spoilt == UNION {World(s, {3, 6, 7, 8, 9, 10, 11}, 2 .. 9, 1, 0) : s \in MCStories}
MCWorlds == Raced \cup Spoilt
=============================================================================
