-------------------------------- MODULE MCClient --------------------------------
(***************************************************************************)
(* The browser client on small instances: the sidebar and what it lists,   *)
(* the conversation on screen, the virtual list and the rendering of       *)
(* markdown.  They share no state, so each behaviour is one part's and the *)
(* others stay as they are.                                                *)
(***************************************************************************)
EXTENDS Library, Screen, VirtualList, Rendering

CONSTANTS a, b, f1, f2, g1

VARIABLE part

clientVars == <<libraryVars, screenVars, listVars, renderVars, part>>

AnyChat == [archived |-> FALSE, folder |-> Nobody, tag |-> Nobody]
MCFilters == {AnyChat, [AnyChat EXCEPT !.folder = f1]}
\* Two messages match the query, a millisecond apart: in a tie one comes after every chat, the
\* other before.
MCHits == {<<0, 11>>, <<1, 0>>}

MCInit ==
  /\ part \in {"shelves", "sidebar", "search", "screen", "list", "markdown"}
  /\ LibraryInit /\ (part = "sidebar" \/ sidebar.filter = AnyChat)
  /\ ScreenInit /\ (part = "screen" \/ \A c \in Screens : talk[c].stage = "none")
  /\ ListInit
  /\ RenderInit

LibraryParts ==
  \/ part = "shelves" /\ (FolderSteps \/ (ChatSteps /\ clock'.now = 0))
  \/ part = "sidebar" /\ (ChatSteps \/ SidebarSteps)
  \/ part = "search" /\ (ChatSteps \/ SearchSteps)

\* The second conversation's turn says nothing, and no open(), send or reset overlaps
\* another: what happens when one does is another question.
ScreenPart == part = "screen" /\ (TalkSteps \/ ScreenSteps) /\ ~overlapped' /\ talk'[b].log = <<>>

MCNext ==
  /\ UNCHANGED part
  /\ \/ LibraryParts /\ UNCHANGED <<screenVars, listVars, renderVars>>
     \/ ScreenPart /\ UNCHANGED <<libraryVars, listVars, renderVars>>
     \/ part = "list" /\ ListNext /\ UNCHANGED <<libraryVars, screenVars, renderVars>>
     \/ part = "markdown" /\ RenderNext /\ UNCHANGED <<libraryVars, screenVars, listVars>>

MCSpec == MCInit /\ [][MCNext]_clientVars /\ ScreenFairness
=================================================================================
