------------------------------ MODULE MCRuntime -------------------------------
(*****************************************************************************)
(* What the runtime offers around its tasks, for TLC: sets of tasks,         *)
(* closures, macros, timers, signals, sockets and the reactor.  The          *)
(* components share no state: a behaviour is about one of them and leaves    *)
(* the others in one initial state.                                          *)
(*****************************************************************************)
EXTENDS Timers, Closures, Combinators, Sockets, Reactor, Signals, LocalSet, JoinSet

VARIABLE which  \* the component this behaviour is about

Ends == INSTANCE Endpoints
EndpointOps == Ends!Methods

ASSUME Constants == ClosuresAssumption /\ CombinatorsAssumption /\ TimersAssumption
                /\ SocketsAssumption /\ ReactorAssumption

\* Every endpoint has what ReactorAssumption expects, not only those of Kinds.
ASSUME EndpointsFit ==
  \A k \in DOMAIN EndpointOps : EndpointOps[k] \subseteq [dir : InterestOf(k), style : Styles]

allVars == <<which, setVars, localVars, closureVars, macroVars, vars, signalVars,
             socketVars, reactorVars>>

\* The initial states of a component, or one of them if the behaviour
\* is not about it.
TimersStart ==
  /\ Init
  /\ which = "Timers" \/ (kind = "sleep" /\ deadline = CHOOSE d \in Durations : TRUE)
ClosuresStart == ClosuresInit /\ (which = "Closures" \/ (closureOwned /\ clones = Clones))
CombinatorsStart == MacroInit /\ (which = "Combinators" \/ macro = "join")
SocketsStart == SocketsInit /\ (which = "Sockets" \/ socketVia = "TcpSocket")
ReactorStart ==
  ReactorInit /\ (which = "Reactor" \/ endpoint = CHOOSE k \in Kinds : TRUE)

RuntimeInit ==
  /\ which \in {"JoinSet", "LocalSet", "Closures", "Combinators", "Timers", "Signals", "Sockets",
               "Reactor"}
  /\ JoinSetInit /\ LocalInit /\ SignalsInit
  /\ TimersStart /\ ClosuresStart /\ CombinatorsStart /\ SocketsStart /\ ReactorStart

RuntimeNext ==
  \/ /\ which = "JoinSet" /\ JoinSetNext
     /\ UNCHANGED <<which, localVars, closureVars, macroVars, vars, signalVars,
                    socketVars, reactorVars>>
  \/ /\ which = "LocalSet" /\ LocalNext
     /\ UNCHANGED <<which, setVars, closureVars, macroVars, vars, signalVars,
                    socketVars, reactorVars>>
  \/ /\ which = "Closures" /\ ClosuresNext
     /\ UNCHANGED <<which, setVars, localVars, macroVars, vars, signalVars,
                    socketVars, reactorVars>>
  \/ /\ which = "Combinators" /\ MacroNext
     /\ UNCHANGED <<which, setVars, localVars, closureVars, vars, signalVars,
                    socketVars, reactorVars>>
  \/ /\ which = "Timers" /\ Next
     /\ UNCHANGED <<which, setVars, localVars, closureVars, macroVars, signalVars,
                    socketVars, reactorVars>>
  \/ /\ which = "Signals" /\ SignalsNext
     /\ UNCHANGED <<which, setVars, localVars, closureVars, macroVars, vars,
                    socketVars, reactorVars>>
  \/ /\ which = "Sockets" /\ SocketsNext
     /\ UNCHANGED <<which, setVars, localVars, closureVars, macroVars, vars,
                    signalVars, reactorVars>>
  \/ /\ which = "Reactor" /\ ReactorNext
     /\ UNCHANGED <<which, setVars, localVars, closureVars, macroVars, vars,
                    signalVars, socketVars>>

RuntimeSpec == RuntimeInit /\ [][RuntimeNext]_allVars
=============================================================================
