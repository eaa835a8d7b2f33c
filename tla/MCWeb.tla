------------------------------- MODULE MCWeb -------------------------------
(***************************************************************************)
(* The public web site: the pages a visitor goes through, and the arena on *)
(* the home page.  The two share no state, so each behaviour exercises one *)
(* of them, chosen at the beginning.                                       *)
(***************************************************************************)
EXTENDS RoutingArena, Site

VARIABLE component   \* the part this behaviour exercises

vars == <<component, arenaVars, siteVars>>

-----------------------------------------------------------------------------
(* The instance.                                                           *)

MCLanding == [n \in 0..MaxSeq |-> <<2, 1, 1, 3, 1, 3, 3, 2>>[n + 1]]
MCDraws == {[a \in Algos |-> {}], [a \in Algos |-> Gpus]}

\* The home page, one with a fragment that is nowhere, and addresses that only
\* begin like a page's.
MCTyped ==
  {Link(Root, ""), Link(Root, "nowhere"), Link(Research \o <<"/">>, ""),
   Link(Console \o <<"/", "x">>, "feed"), Link(Note("cache-affinity") \o <<"-2">>, "")}

Init ==
  /\ component \in {"arena", "site"}
  /\ ArenaInit /\ SiteInit
  /\ component # "site" => path = Root /\ hash = ""

UseArena ==
  /\ component = "arena" /\ ArenaNext
  /\ UNCHANGED <<component, siteVars>>

UseSite ==
  /\ component = "site" /\ SiteNext
  /\ UNCHANGED <<component, arenaVars>>

Next == UseArena \/ UseSite

Spec == Init /\ [][Next]_vars /\ (component = "site" => SiteFairness)

(***************************************************************************)
(* The arena's figures stay in range: no GPU has fewer than no requests or *)
(* more than it can take, or is more than 97% full; and the page only ever *)
(* scrolls to a section that it has.                                       *)
(***************************************************************************)
TypeOK == ArenaTypeOK /\ SiteTypeOK

=============================================================================
