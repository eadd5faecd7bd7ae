---------------------------- MODULE MCDefinitions ----------------------------
(* Small worlds of definitions, one scenario of operations at a time.        *)
EXTENDS Definitions

RepoA == "A"
RepoB == "B"

Spec1(f, t, o, u, d) == [field |-> f, type |-> t, owner |-> o, up |-> u, down |-> d, print |-> "k1"]

Describe(id, r, pipes, fields) ==
    [id |-> id, repo |-> r, pipelines |-> pipes, fields |-> fields]

\* One field's history: T1, then T2 with both migrations, then T3 with no way back.
Shapes == {Describe(1, RepoA, {}, {Spec1("f", "T1", Source, None, None)}),
           Describe(2, RepoA, {}, {Spec1("f", "T2", Source, "u1", "d1")}),
           Describe(3, RepoA, {}, {Spec1("f", "T3", Source, "u2", "d2")}),
           Describe(4, RepoA, {}, {Spec1("f", "T3", Source, "u2", None)})}

\* A pipeline and the field it owns, its code edited, and with no fingerprint;
\* and another repo's field, and its claim to the first repo's.
Pipes == {Describe(5, RepoA, {[name |-> "p", print |-> "k1"]}, {Spec1("g", "T1", "p", None, None)}),
          Describe(6, RepoA, {[name |-> "p", print |-> "k2"]}, {Spec1("g", "T1", "p", None, None)}),
          Describe(7, RepoA, {[name |-> "p", print |-> None]}, {Spec1("g", "T1", "p", None, None)}),
          Describe(8, RepoB, {}, {Spec1("f", "T1", Source, None, None)}),
          Describe(9, RepoB, {}, {Spec1("g", "T2", Source, None, None)})}

Book == Shapes \cup Pipes

Nothing == [pushes |-> 0, events |-> 0, writes |-> 0, forks |-> 0, merges |-> 0, crashes |-> 0,
            repos |-> {}, vocabulary |-> {}, modes |-> {}]

\* Clients of several versions while the field moves, on a branch and its fork.
Versioned == [Nothing EXCEPT !.pushes = 3, !.writes = 2, !.forks = 1, !.repos = 1..4]

\* A schema and data moved on two branches, and merged, perhaps by halves.
Merged == [Nothing EXCEPT !.pushes = 3, !.writes = 1, !.forks = 1, !.merges = 1, !.crashes = 1,
                          !.repos = {1, 2, 3, 5, 9}, !.modes = {"DefOnly", "DefAndData"}]

\* Repos pushing again and again beside each other.
Repeated == [Nothing EXCEPT !.pushes = 4, !.forks = 1, !.repos = {1, 2} \cup 5..9]

\* Def events pushed one by one, deletions among them, and merged.
Raw == [Nothing EXCEPT !.events = 4, !.forks = 1, !.merges = 1, !.crashes = 1, !.modes = {"DefOnly"},
        !.vocabulary = {Declare("f", "T1", RepoA, Source), Declare("f", "T1", RepoB, Source),
                        Delete("f", RepoA), Delete("f", RepoB), Mutate("f", "T2", RepoA, "u1", None),
                        Declare("g", "T1", RepoB, Source)}]

\* A field with data deleted and pushed again: writes of two lives of it.
Renewed == [Nothing EXCEPT !.pushes = 3, !.events = 1, !.writes = 2, !.repos = {1, 2},
                           !.vocabulary = {Delete("f", RepoA)}]

\* A fork of a branch with data at one version, written at the next.
Forked == [Versioned EXCEPT !.pushes = 2, !.repos = {1, 2}]

Forks == {Forked}

\* One repo: a field clients write, then the field with another type, and handed to a
\* producer by the same push.
Handover == {Describe(1, RepoA, {}, {Spec1("f", "T1", Source, None, None)}),
             Describe(2, RepoA, {[name |-> "p", print |-> "k1"]},
                      {Spec1("f", "T2", "p", "u1", "d1")})}

Handed == {[Nothing EXCEPT !.pushes = 3, !.writes = 1, !.repos = {1, 2}]}

Worlds == {Versioned, Merged, Repeated, Raw, Renewed}

\* What a repeated push needs to be silent is so of these repos, and a field that is
\* handed over breaks it.
ASSUME BookSharesNothing == /\ Descriptions = Book => NothingShared
                            /\ Descriptions = Handover => ~NothingShared
==============================================================================
