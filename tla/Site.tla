-------------------------------- MODULE Site --------------------------------
(***************************************************************************)
(* The pages of web-ui/src: App.tsx chooses one by the address, and the    *)
(* frame of the marketing pages (MarketingChrome.tsx) brings the visitor   *)
(* to the section that the fragment names.  Links lead from page to page,  *)
(* each of which is loaded anew; what the browser does is modelled from    *)
(* how the code relies on it.                                              *)
(*                                                                         *)
(* A path is a sequence of pieces that spell it: <<"/", "research", "/">>. *)
(***************************************************************************)
EXTENDS Integers, Sequences, SequencesExt, FiniteSetsExt

CONSTANTS Typed,     \* addresses a visitor types: records [path, hash]
          MaxActs,   \* bound on what a visitor does
          MaxFrames  \* bound on the animation frames requested at a time

Root == <<"/">>
Engineering == <<"/", "engineering">>
Research == <<"/", "research">>
Console == <<"/", "dashboard">>
Note(name) == Research \o <<"/", name>>

ASSUME SiteAssumption ==
  /\ MaxActs \in Nat /\ MaxFrames \in Nat \ {0}
  /\ \A a \in Typed : a.path # << >> /\ a.path[1] = "/"

-----------------------------------------------------------------------------
(* Which page an address shows, and under which title.                     *)

\* Trailing slashes do not count.
PathOf(path) ==
  LET kept == {n \in 1..Len(path) : path[n] # "/"}
  IN  IF kept = {} THEN Root ELSE SubSeq(path, 1, Max(kept))

Under(path, dir) == path = dir \/ IsPrefix(dir \o <<"/">>, path)

\* Seeded fault: the index is the first to match.
ArticleIndexFirst(path) ==
  CASE IsPrefix(Research, path) -> "notes"
    [] OTHER -> "notes"

Article(path) ==
  CASE IsPrefix(Note("cache-affinity"), path) -> "affinity"
    [] IsPrefix(Note("queue-reservations"), path) -> "queue"
    [] IsPrefix(Note("prompt-safe-observability"), path) -> "privacy"
    [] OTHER -> "notes"

\* ResearchPage looks at the address itself, slashes and all.
PageAt(path) ==
  CASE Under(PathOf(path), Console) -> "console"
    [] Under(PathOf(path), Engineering) -> "engineering"
    [] Under(PathOf(path), Research) -> Article(path)
    [] OTHER -> "home"

\* A title is named after its page; the home page's is also the default.
TitleAt(path) ==
  CASE PathOf(path) = Engineering -> "engineering"
    [] PathOf(path) = Research -> "notes"
    [] PathOf(path) = Note("cache-affinity") -> "affinity"
    [] PathOf(path) = Note("queue-reservations") -> "queue"
    [] PathOf(path) = Note("prompt-safe-observability") -> "privacy"
    [] PathOf(path) = Console -> "console"
    [] OTHER -> "home"

-----------------------------------------------------------------------------
(* The links of each page, and the sections it has.                        *)

Pages == {"home", "console", "engineering", "notes", "affinity", "queue", "privacy"}
HasChrome(p) == p # "console"

Link(path, hash) == [path |-> path, hash |-> hash]
Here(hash) == Link(<< >>, hash)

Toc == {"premise", "contracts", "envelope", "identity-deep", "directory-deep",
        "eligibility", "policy", "streaming", "failure", "privacy", "replicas",
        "evaluation"}

Posts == {Link(Note("cache-affinity"), ""), Link(Note("queue-reservations"), ""),
          Link(Engineering, "eligibility"),
          Link(Note("prompt-safe-observability"), ""),
          Link(Engineering, "evaluation")}

NextNote(p) ==
  CASE p = "affinity" -> Link(Engineering, "")
    [] p = "queue"    -> Link(Note("prompt-safe-observability"), "")
    [] p = "privacy"  -> Link(Engineering, "privacy")

NavLinks(p) ==
  {Link(Root, ""), IF p = "home" THEN Here("arena") ELSE Link(Root, "arena"),
   Link(Engineering, ""), Link(Research, ""), Link(Console, "")}

FooterLinks ==
  {Link(Root, ""), Link(Root, "arena"), Link(Engineering, ""),
   Link(Research, ""), Link(Console, "")}

BodyLinks(p) ==
  CASE p = "home" -> {Link(Console, ""), Here("arena"), Link(Engineering, ""),
                      Link(Research, "")}
    [] p = "console" -> {Link(Root, ""), Here("chassis"), Here("feed")}
    [] p = "engineering" -> {Here(id) : id \in Toc}
    [] p = "notes" -> Posts
    [] OTHER -> {Link(Research, ""), NextNote(p)}

LinksOn(p) == BodyLinks(p) \cup (IF HasChrome(p) THEN NavLinks(p) \cup FooterLinks ELSE {})

\* Lines 46, 76, 104, 133, 172, 205, 237, 271, 302, 327, 348 and 370 of the page.
EngineeringSections ==
  {"premise", "contracts", "envelope", "identity-deep", "directory-deep",
   "eligibility", "policy", "streaming", "failure", "privacy", "replicas",
   "evaluation"}

SectionsOf(p) ==
  CASE p = "home" -> {"arena", "vs", "host"}
    [] p = "console" -> {"chassis", "feed"}
    [] p = "engineering" -> EngineeringSections
    [] OTHER -> {}

Laws == {"name", "admit", "hold", "see"}

-----------------------------------------------------------------------------
(* A visit.                                                                *)

VARIABLES path, hash,  \* the address
          stage,       \* "loading", "rendered", or "ready": the effects ran
          page,        \* what App has rendered
          title,       \* document.title
          view,        \* the section the visitor was brought to last, or "top"
          frames,      \* the sections that requested frames will scroll to
          changed,     \* a hashchange event is on its way
          law,         \* the tab of the home page
          wanted,      \* history: << >>, or <<link>>, the one followed last
          acts         \* what the visitor has done so far

siteVars == <<path, hash, stage, page, title, view, frames, changed, law, wanted,
              acts>>

Hashes ==
  {""} \cup (UNION {SectionsOf(p) : p \in Pages}) \cup {a.hash : a \in Typed}

SiteTypeOK ==
  /\ path[1] = "/" /\ hash \in Hashes
  /\ stage \in {"loading", "rendered", "ready"}
  /\ page \in Pages
  /\ title \in Pages \cup {"static"}
  /\ view \in SectionsOf(page) \cup {"top"}
  /\ Len(frames) <= MaxFrames /\ \A n \in DOMAIN frames : frames[n] \in Hashes
  /\ changed \in BOOLEAN
  /\ law \in Laws
  /\ Len(wanted) <= 1
  /\ acts \in 0..MaxActs

\* A new document, with the title that index.html gives it.
Open(p, h) ==
  /\ path' = p /\ hash' = h
  /\ stage' = "loading" /\ page' = "home" /\ title' = "static" /\ view' = "top"
  /\ frames' = << >> /\ changed' = FALSE
  /\ law' = "name"

SiteInit ==
  /\ \E a \in Typed : path = a.path /\ hash = a.hash
  /\ stage = "loading" /\ page = "home" /\ title = "static" /\ view = "top"
  /\ frames = << >> /\ changed = FALSE
  /\ law = "name" /\ wanted = << >> /\ acts = 0

Act == acts < MaxActs /\ acts' = acts + 1

\* scrollIntoView, for an element that is there.
Scrolled(p, id) == IF id \in SectionsOf(p) THEN id ELSE view

TypeAddress ==
  /\ Act
  /\ \E a \in Typed : Open(a.path, a.hash)
  /\ wanted' = << >>

(***************************************************************************)
(* React renders the page.  The browser may still be looking for the       *)
(* fragment of the address, or have given up: the served document is empty.*)
(***************************************************************************)
Draw ==
  /\ stage = "loading"
  /\ stage' = "rendered"
  /\ page' = PageAt(path)
  /\ view' \in {"top", Scrolled(page', hash)}
  /\ UNCHANGED <<path, hash, title, frames, changed, law, wanted, acts>>

RunHash == frames' = IF hash = "" THEN frames ELSE Append(frames, hash)

\* Seeded fault: the effect only listens for changes of the fragment.
EffectsListen ==
  /\ stage = "rendered"
  /\ stage' = "ready"
  /\ title' = TitleAt(path)
  /\ UNCHANGED <<path, hash, page, view, frames, changed, law, wanted, acts>>

Effects ==
  /\ stage = "rendered"
  /\ stage' = "ready"
  /\ title' = TitleAt(path)
  /\ IF HasChrome(page) THEN RunHash ELSE UNCHANGED frames
  /\ UNCHANGED <<path, hash, page, view, changed, law, wanted, acts>>

\* The event reaches runHash if it is registered, which it stays.
HashChange ==
  /\ changed /\ Len(frames) < MaxFrames
  /\ changed' = FALSE
  /\ IF stage = "ready" /\ HasChrome(page) THEN RunHash ELSE UNCHANGED frames
  /\ UNCHANGED <<path, hash, stage, page, title, view, law, wanted, acts>>

\* All frames requested so far, in order: each scrolls, if it can.
Frame ==
  /\ frames # << >>
  /\ frames' = << >>
  /\ LET hits == {n \in DOMAIN frames : frames[n] \in SectionsOf(page)}
     IN  view' = IF hits = {} THEN view ELSE frames[Max(hits)]
  /\ UNCHANGED <<path, hash, stage, page, title, changed, law, wanted, acts>>

-----------------------------------------------------------------------------
(* What a visitor does on a page.                                          *)

\* The browser goes to a section of the page it shows.
Jump(id) ==
  /\ hash' = id
  /\ view' = Scrolled(page, id)
  /\ changed' = (changed \/ hash # id)
  /\ UNCHANGED <<path, stage, page, title, frames, law>>

\* onClick: the frame takes the click, scrolls, and replaces the address.
Intercept(id) ==
  /\ view' = Scrolled(page, id)
  /\ hash' = id
  /\ UNCHANGED <<path, stage, page, title, frames, changed, law>>

StaysOnPage(link) == link.path = << >> \/ (link.path = path /\ link.hash # "")

(***************************************************************************)
(* A frame that was requested before the click still scrolls to what it    *)
(* was requested for, and ends up there: no promise is recorded then.      *)
(***************************************************************************)
Follow(link) ==
  /\ stage # "loading" /\ Act
  /\ wanted' = IF StaysOnPage(link) /\ frames # << >> THEN << >> ELSE <<link>>
  /\ IF link.path = << >> /\ stage = "ready" /\ HasChrome(page) THEN Intercept(link.hash)
     ELSE IF StaysOnPage(link) THEN Jump(link.hash)
     ELSE Open(link.path, link.hash)

\* The fragment is edited, or the visitor goes back to another one.
EditHash ==
  /\ stage # "loading" /\ Act
  /\ \E id \in SectionsOf(page) \ {hash} : Jump(id)
  /\ wanted' = << >>

SelectLaw ==
  /\ stage # "loading" /\ page = "home" /\ Act
  /\ law' \in Laws
  /\ UNCHANGED <<path, hash, stage, page, title, view, frames, changed, wanted>>

SiteNext ==
  \/ Draw \/ Effects \/ HashChange \/ Frame
  \/ TypeAddress \/ EditHash \/ SelectLaw
  \/ \E link \in LinksOn(page) : Follow(link)

SiteSpec == SiteInit /\ [][SiteNext]_siteVars

\* The browser loads, runs effects, and draws frames.
SiteFairness == WF_siteVars(Draw) /\ WF_siteVars(Effects) /\ WF_siteVars(Frame)

-----------------------------------------------------------------------------
(***************************************************************************)
(* Every link leads where it says: the page it names is shown under its    *)
(* own title, and the section its fragment names is on that page and is    *)
(* scrolled to, whether the page was loaded for it or was there, even if   *)
(* the visitor is faster than the effects, and for good unless a frame was *)
(* pending when the link was followed.                                     *)
(***************************************************************************)
Landed ==
  /\ stage = "ready"
  /\ wanted # << >> =>
       /\ wanted[1].path # << >> => title = page
       /\ wanted[1].hash \in {"", view}

\* Whoever follows a link, and no other after it, lands where it leads.
LinksLand == <>[](wanted # << >>) => <>[]Landed

=============================================================================
