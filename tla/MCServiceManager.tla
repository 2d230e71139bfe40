-------------------------- MODULE MCServiceManager --------------------------
(* Scenarios for TLC: each lets a few disturbances of ServiceManager meet.  *)
EXTENDS ServiceManager

CONSTANTS s1, s2

Calm ==
    [integrated |-> {}, gates |-> {"Anytime"}, hot |-> {}, watched |-> {},
     wrapped |-> {}, orphaned |-> {}, versions |-> {1, 2}, bad |-> {},
     fresh |-> FALSE, pin |-> 1,
     left |-> [b \in Budgets |-> 0]]

With(sc, l) == [sc EXCEPT !.left = l @@ sc.left]

\* A first start: installations fail while the connection comes and goes.
Fresh == With([Calm EXCEPT !.fresh = TRUE, !.integrated = {s2}],
              [fail |-> 1, link |-> 1])

\* Pins and binaries move, the window opens and closes, the daemon
\* restarts.
Upgrades == With([Calm EXCEPT !.gates = {"InWindow", "Deferred"}, !.integrated = {s2}],
                 [pin |-> 1, drift |-> 1, boot |-> 1])

\* A service crashes over and over on versions 1 and 2.
CrashLoop == With([Calm EXCEPT !.bad = {1, 2}, !.versions = {1, 2, 3}, !.pin = 2,
                               !.integrated = {s2}],
                  [pin |-> 1])

\* A program that resolves differently for daemon and supervisor, an env file
\* that is rewritten, and a health check that fails.
Wrapped == With([Calm EXCEPT !.wrapped = {s1}, !.watched = {s1}, !.hot = {s1},
                             !.integrated = {s2}],
                [conf |-> 1, crash |-> 1, sick |-> 1])

\* Two services to restart, a tick that takes too long, an orphan on the port.
Slow == With([Calm EXCEPT !.orphaned = {s1}], [conf |-> 1, slow |-> 1])

\* Answers that come too late, up to two of them, on a connection that is lost
\* later.
Late == With([Calm EXCEPT !.integrated = {s2}],
             [slow |-> 1, fail |-> 1, link |-> 1])

\* The window opens and closes while the binary goes back and forth.
BackAndForth == With([Calm EXCEPT !.gates = {"InWindow", "Deferred"}, !.integrated = {s2}],
                     [drift |-> 3, pin |-> 1])

\* An upgrade without a window.
Busy == With([Calm EXCEPT !.integrated = {s2}], [pin |-> 1])

All == {Fresh, Upgrades, CrashLoop, Wrapped, Slow, Late}
Guarded == {BackAndForth}
Unbounded == {Busy}
=============================================================================
