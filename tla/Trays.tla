-------------------------------- MODULE Trays --------------------------------
(***************************************************************************)
(* The tray applications side by side.  A behaviour is about one part of   *)
(* them, which `part' names: the macOS client, the Windows client, the     *)
(* modals of the approvals, or the menu that counts them.  The variables   *)
(* of the other parts keep their initial values.                           *)
(***************************************************************************)
EXTENDS Naturals

CONSTANTS
  Callers, None,
  MaxCalls,            \* bound: calls made, of either client
  MaxConns, MaxExits,  \* bounds of TrayClient
  Faults,              \* of PipeClient
  Approvals,           \* approvals shown in modals
  Counted,             \* approvals that the menu counts as well
  MaxUpsets            \* bound of TrayApprovals

\* None is nobody, and the macOS client may connect.
ASSUME CallersNamed == None \notin Callers
ASSUME ConnsSome == MaxConns \in Nat \ {0}

VARIABLES
  part,
  \* TrayClient
  fd, isClosed, nextId, call, pending, early, reader, up, down, open, daemon,
  calls, exits,
  \* PipeClient
  winNextId, winCall, winPending, buffer, flusher, winReader, winOpen, winUp,
  winDown, overlapped, winCalls,
  \* TrayApprovals
  queue, born, todo, bus, filter, toDaemon, toTray, sub, inbox, count, poll,
  modal, shown, covered, dropped, changes, restarts

macVars == <<fd, isClosed, nextId, call, pending, early, reader, up, down, open,
             daemon, calls, exits>>
winVars == <<winNextId, winCall, winPending, buffer, flusher, winReader, winOpen,
             winUp, winDown, overlapped, winCalls>>
menuVars == <<queue, born, todo, bus, filter, toDaemon, toTray, sub, inbox, count,
              poll, modal, shown, covered, dropped, changes, restarts>>
vars == <<part, macVars, winVars, menuVars>>

Mac == INSTANCE TrayClient

Win == INSTANCE PipeClient WITH
         nextId <- winNextId, call <- winCall, pending <- winPending,
         reader <- winReader, open <- winOpen, up <- winUp, down <- winDown,
         calls <- winCalls

\* Every approval in a modal, one after the other, beside AccountsViewModel.
Modals == INSTANCE TrayApprovals WITH
            Subs <- {"accounts", "coordinator"}, Refreshers <- {},
            up <- toDaemon, down <- toTray, exits <- restarts

\* The count in the menu beside the modals, with fewer approvals.
Menu == INSTANCE TrayApprovals WITH
          Subs <- {"status", "coordinator"}, Refreshers <- {"loop", "notes"},
          Approvals <- Counted, up <- toDaemon, down <- toTray, exits <- restarts

Init ==
  /\ part \in {"macos", "windows", "modals", "menu"}
  /\ Mac!Init /\ Win!Init
  /\ IF part = "modals" THEN Modals!Init ELSE Menu!Init

Next ==
  \/ part = "macos" /\ Mac!Next /\ UNCHANGED <<part, winVars, menuVars>>
  \/ part = "windows" /\ Win!Next /\ UNCHANGED <<part, macVars, menuVars>>
  \/ part = "modals" /\ Modals!Next /\ UNCHANGED <<part, macVars, winVars>>
  \/ part = "menu" /\ Menu!Next /\ UNCHANGED <<part, macVars, winVars>>

Spec == Init /\ [][Next]_vars

\* The tray's tasks run, pollLoop comes round every 30 seconds and answers come
\* before call's timeout.  What the main actor does waits for it to be free; that
\* anybody presses a button, or that an approval expires, is not assumed.
MenuFairness ==
  /\ WF_menuVars(part = "menu" /\ Menu!Serve) /\ WF_menuVars(part = "menu" /\ Menu!FanOut)
  /\ WF_menuVars(part = "menu" /\ Menu!Route) /\ WF_menuVars(part = "menu" /\ Menu!StatusNote)
  /\ WF_menuVars(part = "menu" /\ Menu!Refresh("loop"))
  /\ \A r \in {"loop", "notes"} :
       /\ WF_menuVars(part = "menu" /\ Menu!RefreshList(r))
       /\ WF_menuVars(part = "menu" /\ Menu!Refreshed(r))
  /\ \A e \in {"requested", "resolved"} \X Counted :
       WF_menuVars(part = "menu" /\ Menu!Announce(e))

LiveSpec == Spec /\ Mac!Fairness /\ Win!Fairness /\ MenuFairness
------------------------------------------------------------------------------
\* A call that returns a response returns the one to its own request: on macOS
\* whatever connections its id and the stashed responses have outlived
\* (routeFrame, awaitResponse), on Windows whatever calls threw before it and
\* left their tasks registered and their lines in the buffer (CallAsync).
AnswerIsMine == Mac!AnswerIsMine /\ Win!AnswerIsMine

\* A pending approval that was asked for while ApprovalCoordinator had its
\* stream has been shown in a modal or is on its way to be, or its event met a
\* connection filter that a restart or AccountsViewModel had taken it out of.
PendingIsUnderWay == Menu!PendingIsUnderWay

\* A call returns: on macOS unless it has parked when another call had already
\* connected again, on Windows while the daemon runs and no line is damaged.
EveryCallReturns ==
  \A c \in Callers : (Mac!Waits(c) \/ Win!Waits(c)) ~> (Mac!Returned(c) /\ Win!Returned(c))

\* StatusViewModel's poll brings the count of pending approvals right in the
\* end, whatever events were lost, overtaken or counted twice, unless a modal
\* stays open for ever or a reconnect has parked the poll for ever.
CountConverges == part = "menu" => Menu!CountConverges
==============================================================================
