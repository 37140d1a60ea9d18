----------------------------- MODULE SiteRange ------------------------------
(***************************************************************************)
(* Ranges of sites of one type, as prohibitRange orders and extends them.  *)
(* A site has a type and coordinates; its name is TYPE_XxYy.               *)
(***************************************************************************)
EXTENDS Integers, FiniteSetsExt, SequencesExt

\* prohibitRange::operator<, on the site a range starts at.
Before(s, t) == s.x < t.x \/ (s.x = t.x /\ s.y < t.y)

\* prohibitRange::operator>, on the site a range ends at.
After(s, t) == s.y > t.y \/ (s.y = t.y /\ s.x > t.x)

\* The tools read a range as the rectangle of sites between its two corners.
Covers(range, s) == /\ s.type = range.min.type
                    /\ s.x \in range.min.x .. range.max.x
                    /\ s.y \in range.min.y .. range.max.y

NewRange(s) == [min |-> s, max |-> s]

\* Slip: only the upper end moves.
ExtendUpOnly(range, s) ==
    IF After(s, range.max) THEN [range EXCEPT !.max = s] ELSE range

\* Slip: each end as a corner of the bounding box, which need not be a site.
ExtendToBox(range, s) ==
    [min |-> [s EXCEPT !.x = IF s.x < range.min.x THEN s.x ELSE range.min.x,
                       !.y = IF s.y < range.min.y THEN s.y ELSE range.min.y],
     max |-> [s EXCEPT !.x = IF s.x > range.max.x THEN s.x ELSE range.max.x,
                       !.y = IF s.y > range.max.y THEN s.y ELSE range.max.y]]

\* A site moves one end of its range, or none: never both.
Extend(range, s) ==
    IF Before(s, range.min) THEN [range EXCEPT !.min = s]
    ELSE IF After(s, range.max) THEN [range EXCEPT !.max = s]
    ELSE range

\* One site added to the range of its type.
AddSite(ranges, s) ==
    [k \in DOMAIN ranges \cup {s.type} |->
        CASE k # s.type -> ranges[k]
          [] k = s.type /\ k \in DOMAIN ranges -> Extend(ranges[k], s)
          [] k = s.type /\ k \notin DOMAIN ranges -> NewRange(s)]

NoRanges == <<>>

\* The first and the last site of the area, of one type: the corners of a range.
IsFirst(c, area) == c \in area /\ \A s \in area : s.type = c.type => c.x <= s.x /\ c.y <= s.y
IsLast(c, area)  == c \in area /\ \A s \in area : s.type = c.type => c.x >= s.x /\ c.y >= s.y

HasCorners(k, area) == \E c, d \in area : /\ c.type = k /\ IsFirst(c, area)
                                          /\ d.type = k /\ IsLast(d, area)
=============================================================================
