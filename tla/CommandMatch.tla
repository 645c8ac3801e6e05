---------------------------- MODULE CommandMatch ----------------------------
(***************************************************************************)
(* Which command answers a message in a group: the admin edits trigger     *)
(* words and prefixes, which are checked for conflicts and then saved; a   *)
(* handler for each command matches the text by its own grammar, after an  *)
(* arbitration that all of them share.  Texts are sequences of characters: *)
(* letters, " ", the digit "1", prefixes, and "#" for the number or the    *)
(* address of a dynamic.                                                   *)
(***************************************************************************)
EXTENDS Integers, Sequences, FiniteSets, SequencesExt

CONSTANTS
  None,
  Words,     \* triggers that are configured
  Teams,     \* sets of commands: those of one of them are enabled, at most
  Start,     \* COMMAND_START
  Extras,    \* settings of the convenience prefixes
  Text       \* messages

VARIABLES
  team, config, extra, \* the snapshot: command_aliases, command_extra_prefixes
  patch                \* requests that have passed the check, not yet saved

vars == <<team, config, extra, patch>>

Extract  == "extract"
Latest   == "latest"
Title    == "title"
Live     == "live"
Bind     == "bind"
ShopList == "shop_list"
Redeem   == "shop_redeem"
Status   == "status"
\* By command_id.
Ids == <<Extract, Latest, Title, Live, Bind, ShopList, Redeem, Status>>
Commands == Range(Ids)
Before(c, d) == \E i, j \in DOMAIN Ids : i < j /\ Ids[i] = c /\ Ids[j] = d

PrefixRequired == {Extract, Title}
Argument       == {Title, Extract, Live, Bind, ShopList, Redeem}
Plain          == Commands \ Argument

Off == [on |-> FALSE, triggers |-> {}]

-----------------------------------------------------------------------------
(* Grammars *)

Cut(text, n) == SubSeq(text, n + 1, Len(text))
Trim(text) ==
  LET inner == {i \in DOMAIN text : text[i] # " "}
  IN  IF inner = {} THEN <<>> ELSE SubSeq(text, Min(inner), Max(inner))
Longest(words) == CHOOSE w \in words : \A v \in words : Len(v) <= Len(w)
Marks(x) == Start \cup x

\* _strip_command_prefix
Strip(text, x) ==
  LET starts == {p \in Marks(x) : IsPrefix(p, text)}
  IN  IF starts = {} THEN None ELSE Trim(Cut(text, Len(Longest(starts))))

\* _shadowed_by_exact_trigger_elsewhere
Shadowed(text, c, g) ==
  \E d \in Commands \ (PrefixRequired \cup {c}) : g[d].on /\ text \in g[d].triggers

\* _best_own_match_length
Best(text, c, g) ==
  Max({0} \cup {Len(t) : t \in {w \in g[c].triggers : IsPrefix(w, text) \/ IsSuffix(w, text)}})

\* Mutation of MoreSpecific: nothing decides between two of one length.
MoreSpecificNoTie(text, c, g) ==
  \E d \in Commands \ (PrefixRequired \cup {c}) : g[d].on /\ Best(text, d, g) > Best(text, c, g)

\* _more_specific_match_elsewhere
MoreSpecific(text, c, g) ==
  \E d \in Commands \ (PrefixRequired \cup {c}) :
    /\ g[d].on /\ Best(text, d, g) > 0
    /\ \/ Best(text, d, g) > Best(text, c, g)
       \/ Best(text, d, g) = Best(text, c, g) /\ Before(d, c)

\* The text, then what a prefix leaves of it.
Stripped(text, x) == <<text>> \o (IF Strip(text, x) = None THEN <<>> ELSE <<Strip(text, x)>>)

\* match_plain
MatchPlain(text, c, tome, g, x) ==
  /\ g[c].on
  /\ IF tome THEN Best(text, c, g) > 0 /\ ~MoreSpecific(text, c, g)
     ELSE \/ Head(Stripped(text, x)) \in g[c].triggers
          \/ ~Shadowed(text, c, g) /\ Strip(text, x) \in g[c].triggers

\* _match_command_arg: the length of the trigger, or 0; arg: whether more must follow.
MatchArg(text, c, arg, g, x) ==
  LET fits(t, cand) ==
        \/ cand = t /\ ~arg
        \/ /\ Len(cand) > Len(t) /\ IsPrefix(t, cand) /\ cand[Len(t) + 1] = " "
           /\ ~Shadowed(cand, c, g)
      of(cand) == Max({0} \cup {Len(t) : t \in {w \in g[c].triggers : fits(w, cand)}})
      found == SelectSeq([i \in DOMAIN Stripped(text, x) |-> of(Stripped(text, x)[i])],
                         LAMBDA n : n > 0)
  IN  IF (text \notin g[c].triggers /\ Shadowed(text, c, g)) \/ found = <<>> THEN 0 ELSE Head(found)

Digits(text) == \A i \in DOMAIN text : text[i] = "1"

\* _match_shop_list_command
MatchShopList(text, g, x) ==
  LET of(cand) == Max({0} \cup {Len(t) : t \in
                    {w \in g[ShopList].triggers : IsPrefix(w, cand) /\ Digits(Cut(cand, Len(w)))}})
      found == SelectSeq([i \in DOMAIN Stripped(text, x) |-> of(Stripped(text, x)[i])],
                         LAMBDA n : n > 0)
  IN  IF found = <<>> THEN 0 ELSE Head(found)

\* The regular expressions of _match_extract_command and _match_title_command.
MatchHead(text, c, g, x) ==
  LET ends(rest) == IF c = Extract THEN rest \in {<<>>, <<"#">>}
                    ELSE Len(rest) > 1 /\ rest[1] = " "
      heads == {pt \in Marks(x) \X g[c].triggers :
                  IsPrefix(pt[1] \o pt[2], text) /\ ends(Cut(text, Len(pt[1] \o pt[2])))}
      p == Longest({pt[1] : pt \in heads})
  IN  IF heads = {} THEN 0 ELSE Len(Longest({pt[2] : pt \in {h \in heads : h[1] = p}}))

\* _matching_argument_commands: the length of the trigger that was hit.
Hit(text, c, g, x) ==
  IF ~g[c].on THEN 0
  ELSE IF c \in PrefixRequired THEN MatchHead(text, c, g, x)
  ELSE IF c = ShopList THEN MatchShopList(text, g, x)
  ELSE MatchArg(text, c, c = Redeem, g, x)

-----------------------------------------------------------------------------
(* The arbitration *)

Only(g, cs) == [c \in Commands |-> IF c \in cs THEN g[c] ELSE [g[c] EXCEPT !.on = FALSE]]

Weight(c) == IF c = Extract THEN 4 ELSE IF c \in {Title, Status} THEN 5 ELSE 10

\* Of (command, length) the one that wins.
First(found) ==
  CHOOSE f \in found : \A h \in found \ {f} :
    \/ h[2] < f[2]
    \/ h[2] = f[2] /\ Weight(h[1]) > Weight(f[1])
    \/ h[2] = f[2] /\ Weight(h[1]) = Weight(f[1]) /\ Before(f[1], h[1])

\* The command that has the whole text for a trigger, or else the longest hit.  Of
\* several the code takes that which comes first in the configuration: a valid one
\* has no two with the same trigger.
Owner(text, tome, g, hits, x) ==
  LET exact == {c \in (Plain \cup hits) \ PrefixRequired : g[c].on /\ text \in g[c].triggers}
      starts(c) == {t \in g[c].triggers : IsPrefix(t, text)}
      fuzzy == {c \in Plain : /\ tome /\ hits # {} /\ starts(c) # {}
                              /\ MatchPlain(text, c, TRUE, g, x)}
      found == {<<c, Hit(text, c, g, x)>> : c \in hits}
                 \cup {<<c, Len(Longest(starts(c)))>> : c \in fuzzy}
  IN  IF exact # {} THEN CHOOSE c \in exact : \A d \in exact \ {c} : Before(c, d)
      ELSE IF found = {} THEN None ELSE First(found)[1]

\* _scope_command_aliases, in a group in which every feature is enabled
Scope(text, tome, g, x) ==
  LET allowed == Only(g, Commands \ (IF tome THEN {} ELSE {Bind, ShopList, Redeem}))
      hits    == {c \in Argument : Hit(text, c, allowed, x) > 0}
      scoped  == Only(allowed, Plain \cup hits)
      owner   == Owner(text, tome, scoped, hits, x)
  IN  IF owner = None THEN scoped ELSE Only(scoped, {owner})

\* The commands whose handlers answer.
Answering(text, tome) ==
  LET g == Scope(text, tome, config, extra)
  IN  {c \in Commands : IF c \in Plain THEN MatchPlain(text, c, tome, g, extra)
                        ELSE Hit(text, c, g, extra) > 0}

-----------------------------------------------------------------------------
(* Settings *)

Users(t, g) == {c \in Commands : g[c].on /\ t \in g[c].triggers}

\* find_trigger_conflicts, second part: what another command takes for its own.
Takes(c, d, t, head, x) ==
  LET cands == {head} \cup ({Strip(head, x)} \ {None})
  IN  IF d \in Plain THEN IsPrefix(t, head)
      ELSE IF d \in {Live, Bind, Redeem} THEN
        \E w \in cands : IsPrefix(t, w) /\ (Len(w) = Len(t) \/ w[Len(t) + 1] = " ")
      ELSE c = Extract /\ d = ShopList /\ \E w \in cands : IsPrefix(t, w) /\ Digits(Cut(w, Len(t)))

\* find_trigger_conflicts
Conflict(g, x) ==
  \/ \E c \in Commands : g[c].on /\ \E t \in g[c].triggers :
       Cardinality(Users(t, g) \cup
         (IF Strip(t, x) \notin {None, <<>>} /\ ~(Users(t, g) \subseteq PrefixRequired)
            THEN Users(Strip(t, x), g) \ PrefixRequired ELSE {})) > 1
  \/ \E c \in PrefixRequired, d \in Commands : g[c].on /\ g[d].on /\
       \E t \in g[c].triggers, p \in Marks(x), u \in g[d].triggers : Takes(c, d, u, p \o t, x)

\* validation_error
Valid(g, x) == (\A c \in Commands : g[c].on => g[c].triggers # {}) /\ ~Conflict(g, x)

Init ==
  /\ team \in Teams
  /\ config = [c \in Commands |-> Off] /\ extra \in Extras
  /\ patch = [aliases |-> None, prefixes |-> None]

\* PATCH /settings: one command of the snapshot is replaced, and the whole is checked.
CheckAliases(c, entry) ==
  LET g == [config EXCEPT ![c] = entry] IN
  /\ patch.aliases = None /\ Valid(g, extra)
  /\ patch' = [patch EXCEPT !.aliases = g]
  /\ UNCHANGED <<team, config, extra>>

CheckPrefixes(x) ==
  /\ patch.prefixes = None /\ Valid(config, x)
  /\ patch' = [patch EXCEPT !.prefixes = x]
  /\ UNCHANGED <<team, config, extra>>

\* It is saved and loaded, as it was checked.
SaveAliases ==
  /\ patch.aliases # None
  /\ config' = patch.aliases /\ patch' = [patch EXCEPT !.aliases = None]
  /\ UNCHANGED <<team, extra>>

SavePrefixes ==
  /\ patch.prefixes # None
  /\ extra' = patch.prefixes /\ patch' = [patch EXCEPT !.prefixes = None]
  /\ UNCHANGED <<team, config>>

Next ==
  \/ \E c \in team, w \in Words : CheckAliases(c, [on |-> TRUE, triggers |-> {w}])
  \/ \E c \in team : CheckAliases(c, Off)
  \/ \E x \in Extras : CheckPrefixes(x)
  \/ SaveAliases \/ SavePrefixes

Spec == Init /\ [][Next]_vars

-----------------------------------------------------------------------------
(* Properties *)

Saved == patch.aliases = None /\ patch.prefixes = None

\* No message is answered by two commands, however triggers and prefixes overlap, and
\* although two requests may have saved what only one of them has checked.
One ==
  Saved => \A text \in Text, tome \in BOOLEAN : Cardinality(Answering(text, tome)) <= 1

\* A trigger alone invokes its command, whatever else is configured; behind every
\* prefix, that of a command that must have one.
Own ==
  Saved /\ Valid(config, extra) => \A c \in team : config[c].on =>
    \A t \in config[c].triggers, tome \in BOOLEAN :
      /\ c \in {Latest, Status, Live} \/ (tome /\ c \in {Bind, ShopList}) => Answering(t, tome) = {c}
      /\ c = Extract => \A p \in Marks(extra) : Answering(p \o t, tome) = {c}
=============================================================================
