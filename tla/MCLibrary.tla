----------------------------- MODULE MCLibrary ------------------------------
(* Three components that share nothing, each explored by itself: focus says   *)
(* which one moves.                                                           *)
EXTENDS PluginRegistry, Resolver, Reactor, TLC

CONSTANTS f1, f2, s1, s2, q1, q2, q3, x1, x2, x3

TwoStages == (f1 :> s1) @@ (f2 :> s2)
TwoHosts  == (q1 :> "h") @@ (q2 :> "h") @@ (q3 :> "i")

\* One client may send a request, one a part of a request.
Says == (x1 :> 2) @@ (x2 :> 1) @@ (x3 :> 0)

VARIABLE focus

libraryVars == <<vars, resolverVars, reactorVars, focus>>

LibraryInit ==
  /\ focus \in {"plugins", "resolver", "reactor"}
  /\ Init /\ ResolverInit /\ ReactorInit
  /\ focus # "plugins" => nslots = 0 /\ watcher = "off"
  /\ focus # "resolver" => ~reactor

PluginsDo(A)  == focus = "plugins" /\ A /\ UNCHANGED <<resolverVars, reactorVars, focus>>
ResolverDo(A) == focus = "resolver" /\ A /\ UNCHANGED <<vars, reactorVars, focus>>
ReactorDo(A)  == focus = "reactor" /\ A /\ UNCHANGED <<vars, resolverVars, focus>>

LibraryNext ==
  PluginsDo(Next) \/ ResolverDo(ResolverNext) \/ ReactorDo(ReactorNext)

\* The fairness of each component, while it is the one that moves.
LibraryFairness ==
  /\ WF_libraryVars(PluginsDo(WatcherStep))
  /\ WF_libraryVars(ResolverDo(FreeAll))
  /\ \A w \in Workers : WF_libraryVars(ResolverDo(WorkerStep(w)))
  /\ WF_libraryVars(ReactorDo(ReactorStep))
  /\ \A c \in Clients : /\ WF_libraryVars(ReactorDo(Listen(c)))
                       /\ WF_libraryVars(ReactorDo(ResetArrives(c)))

LibrarySpec == LibraryInit /\ [][LibraryNext]_libraryVars /\ LibraryFairness
=============================================================================
