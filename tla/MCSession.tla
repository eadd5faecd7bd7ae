----------------------------- MODULE MCSession -----------------------------
(***************************************************************************)
(* Two connections, two registries of which one or both are there, and two *)
(* keys: one for a single registry, one for everything.                    *)
(***************************************************************************)
EXTENDS Session, TLC

CONSTANTS r1, r2, k1, k2

Scopes == (k1 :> {r1}) @@ (k2 :> {r1, r2})

Greeting(cred, r) == [speaks |-> TRUE, cred |-> cred, registry |-> r]
Asking(kind, r)   == [kind |-> kind, registry |-> r]

AllHellos ==
    {[speaks |-> FALSE, cred |-> k2, registry |-> r1],
     Greeting(None, None), Greeting(k1, None), Greeting(k1, r2),
     Greeting(k2, r2), Greeting("admin", r1)}

\* Keys that come and go while clients greet; a client of one registry and one of
\* all that ask twice; and the same with registries being made.
KeysOrWork ==
    {[keys |-> KeysFile("absent", {}), commands |-> 4, asks |-> 0,
      hellos |-> AllHellos, requests |-> {}],
     [keys |-> KeysFile("there", {k1, k2}), commands |-> 0, asks |-> 2,
      hellos |-> {Greeting(k1, None), Greeting(k2, r1)},
      requests |-> {Asking("junk", None), Asking("store", None), Asking("push", r2)}],
     [keys |-> KeysFile("there", {k1, k2}), commands |-> 0, asks |-> 1,
      hellos |-> {Greeting(k1, None), Greeting(k2, None), Greeting(k2, r2)},
      requests |-> {Asking("create", r2), Asking("registries", None),
                    Asking("store", None), Asking("push", r2)}]}
=============================================================================
