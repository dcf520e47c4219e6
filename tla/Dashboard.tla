----------------------------- MODULE Dashboard -----------------------------
(***************************************************************************)
(* The dashboard of the main screen (tui/screens/main.py,                  *)
(* dashboard_render.py, tui/source_dispatch.py, widgets/): sessions land   *)
(* from the local rebuild and from the peers, the render scheduler decides *)
(* when they are drawn, and meanwhile the user moves the cursor, filters,  *)
(* changes view and tab, and has modals up.  A change of tab reaches the   *)
(* screen as a message the tab strip posts: it waits in tabMsgs.           *)
(***************************************************************************)
EXTENDS RowOrder, RenderScheduler, Functions

CONSTANTS
  Local,     \* this host
  Peers,     \* remote_hosts, in configuration order
  Keys,      \* session identities
  HostOf, OwnerOf, NameOf,   \* of each identity
  Matching,  \* the identities the filter text matches
  Me,        \* current_user
  MaxPosted  \* bound: the user changes tab while fewer messages wait

Places == <<Local>> \o Peers
HostSet == Range(Places)
Tabs == 0..Len(Places) - 1

ASSUME DashboardAssumption ==
  /\ IsFiniteSet(Keys) /\ Peers \in Seq(Range(Peers)) /\ IsInjective(Places)
  /\ HostOf \in [Keys -> HostSet] /\ Me \in Range(OwnerOf)
  /\ DOMAIN OwnerOf = Keys /\ DOMAIN NameOf = Keys /\ Matching \subseteq Keys

VARIABLES
  hasCtx,     \* the local rebuild has landed (state.main, _latest_ctx)
  listed,     \* each host's live sessions, by recency (state.main, state.remote)
  seenUsers,  \* MainScreenUiState.seen_users
  rowOrder,   \* MainScreenUiState.row_order
  activeTab,  \* MainScreenUiState.active_tab_index
  view,       \* DashboardUiState.view_mode
  filtered,   \* a filter text is set
  rows,       \* the rows of the list, and _dashboard_rows
  cursor,     \* the list's cursor row
  userColumn, \* the USER column is shown
  stripTab,   \* HostTabStrip.active_index
  tabMsgs,    \* HostTabActivated messages not yet handled
  modalUp     \* another screen covers the main screen

uiVars == <<rowOrder, activeTab, rows, cursor, userColumn, stripTab, tabMsgs>>
vars == <<hasCtx, listed, seenUsers, uiVars, view, filtered, modalUp, schedVars>>

\* A host never lists two sessions of one user under one name.
Listings == [h \in HostSet |->
  {s \in SetToAllKPermutations({k \in Keys : HostOf[k] = h}) :
     \A k, l \in Range(s) : OwnerOf[k] = OwnerOf[l] /\ NameOf[k] = NameOf[l] => k = l}]

Orders == SetToAllKPermutations(Keys)

DashboardTypeOK ==
  /\ SchedulerTypeOK
  /\ hasCtx \in BOOLEAN /\ modalUp \in BOOLEAN /\ userColumn \in BOOLEAN
  /\ \A h \in HostSet : listed[h] \in Listings[h]
  /\ seenUsers \subseteq Range(OwnerOf)
  /\ rowOrder \in Orders /\ rows \in Orders /\ Range(rows) \subseteq Range(rowOrder)
  /\ cursor \in Nat /\ (cursor # 0 => cursor < Len(rows))
  /\ view \in {"by_host", "flat"} /\ filtered \in BOOLEAN
  /\ activeTab \in Tabs /\ stripTab \in Tabs /\ tabMsgs \in Seq(Tabs)

Init ==
  /\ SchedulerInit
  /\ hasCtx = FALSE /\ listed = [h \in HostSet |-> <<>>] /\ seenUsers = {}
  /\ rowOrder = <<>> /\ rows = <<>> /\ cursor = 0 /\ userColumn = FALSE
  /\ activeTab = 0 /\ stripTab = 0 /\ tabMsgs = <<>>
  /\ view = "by_host" /\ filtered = FALSE /\ modalUp = FALSE
-----------------------------------------------------------------------------
(* Selecting and drawing *)

\* select_dashboard_model: this host first, then the peers as configured.
Model(lists, onlyMatching) ==
  Only(FlattenSeq([i \in DOMAIN Places |-> lists[Places[i]]]),
       IF onlyMatching THEN Matching ELSE Keys)

\* A filter forces the flat view; by host, the rows of the active bucket.
ByHost(v, f) == v = "by_host" /\ ~f
Displayed(order, v, f, tab) ==
  IF ByHost(v, f) THEN Only(order, {k \in Keys : HostOf[k] = Places[tab + 1]}) ELSE order

\* collect_user_set and cross_user_latched
UsersOf(lists) == {OwnerOf[k] : k \in UNION {Range(lists[h]) : h \in HostSet}}
Latched(users) == Cardinality(users) > 1

\* Assigning active_index posts a message unless nothing changes.
StripTo(tab, waiting) ==
  /\ stripTab' = tab
  /\ tabMsgs' = IF tab = stripTab THEN waiting ELSE Append(waiting, tab)

(***************************************************************************)
(* refresh_dashboard, over what the step has already written: listed,      *)
(* seenUsers, view, filtered, and activeTab, which it does not change      *)
(* because the number of tabs is fixed.                                    *)
(***************************************************************************)
Refresh(waiting) ==
  /\ rowOrder' = Place(rowOrder, Model(listed', filtered'))
  /\ rows' = Displayed(rowOrder', view', filtered', activeTab')
  /\ userColumn' = Latched(seenUsers')
  /\ IF ByHost(view', filtered')
     THEN StripTo(activeTab', waiting)
     ELSE tabMsgs' = waiting /\ UNCHANGED stripTab

\* The row under the cursor was read before the rows were replaced.
Repin == cursor' = PinCursor(cursor, rows', RowAt(rows, cursor))

\* _current_focus_key and _focus_key: by host, user and name, so the cursor
\* finds the session that took the place of the one it was on.
Named(k) == <<HostOf[k], OwnerOf[k], NameOf[k]>>
SameName(row) == {i \in DOMAIN rows' : row # NoRow /\ Named(rows'[i]) = Named(row.key)}
Refocus ==
  IF SameName(RowAt(rows, cursor)) # {}
  THEN cursor' = Min(SameName(RowAt(rows, cursor))) - 1
  ELSE Repin

\* Mutant of Counted: only the peers' users are counted, as they land.
CountedOnLanding(seen) == seen
Counted(seen) == seen \union UsersOf(listed')

\* apply_loaded_ctx: the users of every source are counted, the dashboard is
\* refreshed, and a list that had the focus gets it back on the same name.
ApplyLoadedCtx(seen) ==
  /\ seenUsers' = Counted(seen)
  /\ Refresh(tabMsgs)
  /\ Refocus \/ Repin

\* _render_dirty refuses while another screen is on top, and a batch that
\* asks only for a context not yet loaded.
AppliesCtx(kinds) == hasCtx' /\ "main_ctx" \in kinds
Drawn(kinds) == ~modalUp /\ (AppliesCtx(kinds) \/ "remote" \in kinds)

Render(kinds, seen) ==
  IF AppliesCtx(kinds)
  THEN ApplyLoadedCtx(seen)
  ELSE seenUsers' = seen /\ Refresh(tabMsgs) /\ Repin

\* A request, or a timer, whose render is due, refused, or not yet due.
RenderIf(due, kinds, seen) ==
  /\ UNCHANGED <<activeTab, view, filtered, modalUp>>
  /\ IF due /\ Drawn(kinds)
     THEN Render(kinds, seen)
     ELSE seenUsers' = seen /\ UNCHANGED <<rowOrder, rows, cursor, userColumn, stripTab, tabMsgs>>

RequestRender(kind, seen) ==
  /\ Request(kind, Drawn(dirty \union {kind}))
  /\ RenderIf(FiresOnRequest, dirty \union {kind}, seen)
-----------------------------------------------------------------------------
(* What lands *)

\* handle_main_ctx_rebuild; a failed rebuild changes nothing.
LocalLands == \E s \in Listings[Local] :
  /\ hasCtx' = TRUE
  /\ listed' = [listed EXCEPT ![Local] = s]
  /\ RequestRender("main_ctx", seenUsers)

\* handle_remote_snapshot; a peer that failed shows no session.  The snapshot
\* that brings a second user asks for the fuller render.
WithUsers(s) == seenUsers \union {OwnerOf[k] : k \in Range(s)}
RemoteKind(s) ==
  IF Latched(WithUsers(s)) /\ ~Latched(seenUsers) THEN "main_ctx" ELSE "remote"
RemoteLands == \E h \in HostSet \ {Local} : \E s \in Listings[h] :
  /\ UNCHANGED hasCtx
  /\ listed' = [listed EXCEPT ![h] = s]
  /\ RequestRender(RemoteKind(s), WithUsers(s))

TimerExpires ==
  /\ UNCHANGED <<hasCtx, listed>>
  /\ TimerFires(Drawn(dirty))
  /\ RenderIf(TRUE, dirty, seenUsers)

Tick ==
  /\ SchedulerTick
  /\ UNCHANGED <<hasCtx, listed, seenUsers, uiVars, view, filtered, modalUp>>
-----------------------------------------------------------------------------
(* What the user does *)

Untouched == UNCHANGED <<hasCtx, listed, seenUsers, schedVars>>
OnMain == ~modalUp /\ Untouched /\ UNCHANGED modalUp

ToggleView ==
  /\ OnMain
  /\ view' = IF view = "flat" THEN "by_host" ELSE "flat"
  /\ UNCHANGED <<filtered, activeTab>>
  /\ Refresh(tabMsgs) /\ Repin

\* on_filter_changed: typing into the search bar, or hiding it.
FilterChanged ==
  /\ OnMain
  /\ filtered' = ~filtered
  /\ UNCHANGED <<view, activeTab>>
  /\ Refresh(tabMsgs) /\ Repin

\* action_prev_tab and action_next_tab move the strip; the screen hears of
\* it later.  on_session_list_view_host_navigate does the same by host.
ChangeTab == \E direction \in {-1, 1} :
  /\ OnMain /\ Len(Places) > 1 /\ Len(tabMsgs) < MaxPosted
  /\ StripTo((stripTab + direction) % Len(Places), tabMsgs)
  /\ UNCHANGED <<rowOrder, activeTab, rows, cursor, userColumn, view, filtered>>

\* on_host_tab_activated, also while a modal is up.
TabActivated ==
  /\ tabMsgs # <<>>
  /\ activeTab' = Head(tabMsgs)
  /\ Untouched /\ UNCHANGED <<view, filtered, modalUp>>
  /\ IF activeTab = Head(tabMsgs)
     THEN tabMsgs' = Tail(tabMsgs) /\ UNCHANGED <<rowOrder, rows, cursor, userColumn, stripTab>>
     ELSE Refresh(Tail(tabMsgs)) /\ Repin

MovesCursor(to) ==
  /\ OnMain /\ cursor' = Clamp(to, rows)
  /\ UNCHANGED <<rowOrder, activeTab, rows, userColumn, stripTab, tabMsgs, view, filtered>>

\* Up and down hand the focus on at the edges; home, end, a page, a click.
CursorDown == cursor < Len(rows) - 1 /\ MovesCursor(cursor + 1)
CursorUp == cursor > 0 /\ MovesCursor(cursor - 1)
CursorJumps == \E i \in DOMAIN rows : MovesCursor(i - 1)

\* In the flat view left and right go from block to block; this host's rows
\* are two kinds of block, mine and others'.
Block(k) == <<HostOf[k], HostOf[k] = Local /\ OwnerOf[k] = Me>>
HostNavigate == \E direction \in {-1, 1} :
  /\ ~ByHost(view, filtered)
  /\ Len(BlockStarts(rows, Block)) > 1
  /\ MovesCursor(NextBlockStart(BlockStarts(rows, Block), cursor, direction))

\* A confirmation, a launch flow or the settings cover the main screen, and
\* go away; nothing is drawn at that moment.
ModalSwitches ==
  /\ modalUp' = ~modalUp
  /\ Untouched /\ UNCHANGED <<uiVars, view, filtered>>

Next ==
  \/ LocalLands \/ RemoteLands \/ TimerExpires \/ Tick
  \/ ToggleView \/ FilterChanged \/ ChangeTab \/ TabActivated
  \/ CursorDown \/ CursorUp \/ CursorJumps \/ HostNavigate
  \/ ModalSwitches

Spec == Init /\ [][Next]_vars

-----------------------------------------------------------------------------
(* Properties *)

(***************************************************************************)
(* With nothing left to draw, the list shows what the sources last         *)
(* delivered under the current filter, view and tab: no landing is lost to *)
(* a render that was refused or coalesced (_render_dirty, _fire).          *)
(***************************************************************************)
ShownIsCurrent == dirty = {} =>
  /\ Range(rowOrder) = Range(Model(listed, filtered))
  /\ rows = Displayed(rowOrder, view, filtered, activeTab)

(***************************************************************************)
(* With nothing left to draw, the USER column is there if two users were   *)
(* ever seen, in whatever source, filtered out or gone since (seen_users). *)
(***************************************************************************)
UserColumnShown == dirty = {} => userColumn = Latched(seenUsers \union UsersOf(listed))

(***************************************************************************)
(* When the rows change under the cursor, it stays on its row as long as   *)
(* that row is shown (pin_cursor_to, then _focus_key by name).             *)
(***************************************************************************)
CursorKeepsItsRow == [][
  rows' # rows /\ RowAt(rows, cursor) # NoRow =>
    \/ ~Contains(rows', RowAt(rows, cursor).key)
    \/ RowAt(rows', cursor') = RowAt(rows, cursor)]_vars

(***************************************************************************)
(* Rows that stay never change places, whatever their recency becomes      *)
(* (place).                                                                *)
(***************************************************************************)
EstablishedRowsKeepOrder == [][rowOrder' # rowOrder =>
  \A k, l \in Range(rowOrder) \cap Range(rowOrder') :
    IndexOf(rowOrder, k) < IndexOf(rowOrder, l)
      => IndexOf(rowOrder', k) < IndexOf(rowOrder', l)]_vars

(***************************************************************************)
(* Why the column is right: the peers' users are counted as they land, and *)
(* this host's with the context, which is still to be drawn until then.    *)
(***************************************************************************)
ColumnInv ==
  /\ DOMAIN listed = HostSet
  /\ \A h \in HostSet \ {Local} : \A k \in Range(listed[h]) : OwnerOf[k] \in seenUsers
  /\ ~hasCtx => Range(listed[Local]) = {}
  /\ "main_ctx" \notin dirty => UsersOf(listed) \subseteq seenUsers
  /\ dirty = {} => userColumn = Latched(seenUsers)

(***************************************************************************)
(* Why the list is right: what is listed has the shape of a listing, and a *)
(* step redraws, or leaves something to draw, or changes nothing shown.    *)
(***************************************************************************)
ListingsOK == DOMAIN listed = HostSet /\ \A h \in HostSet : listed[h] \in Listings[h]

ShownInv ==
  /\ ListingsOK /\ rowOrder \in Seq(Keys) /\ rows \in Seq(Keys)
  /\ ShownIsCurrent
=============================================================================
