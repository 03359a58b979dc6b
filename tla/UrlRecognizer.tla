--------------------------- MODULE UrlRecognizer ---------------------------
(***************************************************************************)
(* CUrlRecognizer (url_recognizer.cpp): how load_conf reads the rule file  *)
(* strong_rule.conf, and what get_type and normalize make of the rules.    *)
(* The file is read line by line by a loop per section; what a section's   *)
(* loop does not end at becomes a rule, whatever it is.  After the end of  *)
(* the file get_one_line goes on returning empty lines.                    *)
(*                                                                         *)
(* A line is a record: its kind, and the domain it names or its rule.  The *)
(* file is chosen while it is read: every file of at most MaxLines lines   *)
(* with at most MaxSlips of them out of place.                             *)
(***************************************************************************)
EXTENDS Integers, Sequences, FiniteSets, SequencesExt

CONSTANTS
    Domains,
    Patterns,       \* regular expressions
    Gaps, Reps,     \* lengths: the blanks before a replacement, and it
    MaxLines, MaxSlips,
    MaxRules        \* bound: the rules of a section

ASSUME UrlRecognizerAssumption ==
    /\ Gaps \subseteq Nat \ {0} /\ Reps \subseteq Nat \ {0}
    /\ MaxLines \in Nat /\ MaxSlips \in Nat /\ MaxRules \in Nat

NoDomain == "no domain"
NoPattern == "no pattern"
Sections == {"item", "normalize", "category"}

Plain(kind) == [kind |-> kind, domain |-> NoDomain, pattern |-> NoPattern, gap |-> 0, rep |-> 0]
Empty == Plain("blank")

\* "unclosed" is a header without its bracket, "tailed" a <category> with
\* something behind it.
Lines == {Plain(k) : k \in {"blank", "comment", "unclosed", "tailed"} \cup Sections}
         \cup {[Empty EXCEPT !.kind = "domain", !.domain = d] : d \in Domains}
         \cup {[Empty EXCEPT !.kind = "rule", !.pattern = p] : p \in Patterns}
         \cup {[Empty EXCEPT !.kind = "rule", !.pattern = p, !.gap = g, !.rep = r] :
                 p \in Patterns, g \in Gaps, r \in Reps}

VARIABLES
    file,       \* the lines read so far
    slips,      \* those out of place
    eof,        \* feof(fp)
    at,         \* where load_conf reads
    domain, m_rules,
    ret         \* what load_conf returned

vars == <<file, slips, eof, at, domain, m_rules, ret>>

-----------------------------------------------------------------------------
(* What a rule file is: blocks of a domain and its three sections, ended   *)
(* by a blank line; blank lines and comments between blocks.               *)

LastBefore(f, i, kinds) ==
    LET J == {j \in 1 .. i - 1 : f[j].kind \in kinds}
    IN  IF J = {} THEN 0 ELSE Max(J)

\* The header or section line that line i is under, and whether a blank line
\* ended the block since.
Under(f, i) == LastBefore(f, i, Sections \cup {"domain"})
UnderKind(f, i) == IF Under(f, i) = 0 THEN "none" ELSE f[Under(f, i)].kind
Between(f, i) == \/ UnderKind(f, i) = "none"
                 \/ /\ UnderKind(f, i) = "category"
                    /\ LastBefore(f, i, {"blank"}) > Under(f, i)

InPlace(f, i) ==
    CASE f[i].kind = "blank"     -> UnderKind(f, i) \in {"none", "category"}
      [] f[i].kind \in {"comment", "domain"} -> Between(f, i)
      [] f[i].kind = "item"      -> i > 1 /\ f[i - 1].kind = "domain"
      [] f[i].kind = "normalize" -> UnderKind(f, i) = "item"
      [] f[i].kind = "category"  -> UnderKind(f, i) = "normalize"
      [] f[i].kind = "rule"      -> /\ UnderKind(f, i) \in Sections /\ ~Between(f, i)
                                    /\ f[i].rep > 0 => UnderKind(f, i) = "normalize"
      [] OTHER -> FALSE

Complete(f) == UnderKind(f, Len(f) + 1) \in {"none", "category"}

\* The rules that a file gives a domain in a section, in their order.
Written(f, d, s) ==
    LET J == {i \in DOMAIN f : /\ f[i].kind = "rule"
                               /\ UnderKind(f, i) = s
                               /\ f[LastBefore(f, i, {"domain"})].domain = d}
    IN  [n \in 1 .. Cardinality(J) |-> f[SetToSortSeq(J, <)[n]]]

-----------------------------------------------------------------------------
Init == /\ file = <<>> /\ slips = {} /\ eof = FALSE
        /\ at = "outer" /\ domain = NoDomain
        /\ m_rules = [d \in {} |-> <<>>]
        /\ ret = "none"

\* get_one_line: the next line, perhaps one without a newline, or an empty
\* one where the file has ended.
get_one_line(line) ==
    \/ /\ ~eof /\ Len(file) < MaxLines
       /\ line \in Lines
       /\ file' = Append(file, line)
       /\ slips' = slips \cup {i \in {Len(file')} : ~InPlace(file', i)}
       /\ Cardinality(slips') <= MaxSlips
       /\ eof' \in BOOLEAN
    \/ /\ line = Empty
       /\ eof' = TRUE
       /\ UNCHANGED <<file, slips>>

NoRules == [s \in Sections |-> <<>>]
RulesOf(d) == IF d \in DOMAIN m_rules THEN m_rules[d] ELSE NoRules
SetRules(d, rules) ==
    m_rules' = [x \in DOMAIN m_rules \cup {d} |-> IF x = d THEN rules ELSE m_rules[x]]

\* insert: a domain that is known keeps its rules.
insert(d) == SetRules(d, RulesOf(d))

IsSkipped(line) == line.kind \in {"blank", "comment"}

\* The domain of a header, without the brackets.
Name(line) == line.domain

\* A line that is not skipped counts as the header of a block, although only
\* one in brackets sets the domain.
Header(line) ==
    IF line.kind = "unclosed"
    THEN ret' = "FR_FALSE" /\ at' = "done" /\ UNCHANGED <<domain, m_rules>>
    ELSE /\ at' = "tag"
         /\ domain' = IF line.kind = "domain" THEN Name(line) ELSE domain
         /\ IF line.kind = "domain" THEN insert(Name(line)) ELSE UNCHANGED m_rules
         /\ UNCHANGED ret

Outer == /\ at = "outer" /\ ~eof
         /\ \E line \in Lines :
               /\ get_one_line(line)
               /\ IF IsSkipped(line) THEN UNCHANGED <<at, domain, m_rules, ret>>
                                     ELSE Header(line)

Close == /\ at = "outer" /\ eof
         /\ ret' = "FR_OK" /\ at' = "done"
         /\ UNCHANGED <<file, slips, eof, domain, m_rules>>

\* The line after the header.
Tag == /\ at = "tag"
       /\ \E line \in Lines :
             /\ get_one_line(line)
             /\ IF line.kind = "item" THEN at' = "item" /\ UNCHANGED ret
                                      ELSE at' = "done" /\ ret' = "FR_FALSE"
       /\ UNCHANGED <<domain, m_rules>>

\* Slip: one character too many is asked for.
Replacement_Off(line) == IF line.gap + line.rep > 3 THEN line.rep ELSE 0

\* What load_conf takes for the replacement: it is looked for behind the first
\* blank, if that is before the last character of the line.
Replacement(line) == IF line.gap + line.rep > 2 THEN line.rep ELSE 0

\* The rule of a line: its first word, and in <normalize> a replacement.
rule(section, line) ==
    [line EXCEPT !.rep = IF section = "normalize" THEN Replacement(line) ELSE 0]

\* Slip: a block ends where the next one begins.
Ends_Header(section, line) ==
    \/ section = "item" /\ line.kind = "normalize"
    \/ section = "normalize" /\ line.kind = "category"
    \/ section = "category" /\ line.kind = "domain"

\* The line at which a section's loop ends.
Ends(section, line) ==
    \/ section = "item" /\ line.kind = "normalize"
    \/ section = "normalize" /\ line.kind = "category"
    \/ section = "category" /\ line.kind = "blank"

After(section) == CASE section = "item" -> "normalize"
                    [] section = "normalize" -> "category"
                    [] section = "category" -> "outer"

\* The second look at <category> (line 144) wants nothing behind it, and a
\* bracket that is not closed is no regular expression: assign throws, which
\* nobody catches.
Refused(s, line) == \/ s = "normalize" /\ line.kind = "tailed"
                    \/ line.kind = "unclosed"

\* A section ends, or one rule is added to it.
Section(s) ==
    /\ at = s
    /\ \E line \in Lines :
          /\ get_one_line(line)
          /\ ~Refused(s, line)
          /\ IF Ends(s, line)
             THEN at' = After(s) /\ UNCHANGED m_rules
             ELSE /\ Len(RulesOf(domain)[s]) < MaxRules
                  /\ SetRules(domain, [RulesOf(domain) EXCEPT ![s] = Append(@, rule(s, line))])
                  /\ UNCHANGED at
    /\ UNCHANGED <<domain, ret>>

Refuse(s) ==
    /\ at = s
    /\ \E line \in Lines : /\ get_one_line(line)
                           /\ Refused(s, line)
                           /\ ret' = IF line.kind = "tailed" THEN "FR_FALSE" ELSE "regex_error"
    /\ at' = "done"
    /\ UNCHANGED <<domain, m_rules>>

load_conf == Outer \/ Close \/ Tag \/ \E s \in Sections : Section(s) \/ Refuse(s)

Next == load_conf

Spec == Init /\ [][Next]_vars

\* The thread that loads the file is not held up by anything.
FairSpec == Spec /\ WF_vars(load_conf)

-----------------------------------------------------------------------------
(* get_type and normalize *)

Urls == [domain : Domains, matched : SUBSET Patterns]

\* regex_search: the empty expression is found in every URL, and a header in
\* brackets is a set of characters, one of which every URL has.
regex_search(u, r) == \/ r.kind \in {"blank", "domain"}
                      \/ r.kind = "rule" /\ r.pattern \in u.matched

Found(u, s) == \E n \in DOMAIN m_rules[u.domain][s] : regex_search(u, m_rules[u.domain][s][n])

\* Slip: categories first.
get_type_Category(u) == IF u.domain \notin DOMAIN m_rules THEN -1
                        ELSE IF Found(u, "category") THEN 2
                        ELSE IF Found(u, "item") THEN 1 ELSE 0

get_type(u) == IF u.domain \notin DOMAIN m_rules THEN -1
               ELSE IF Found(u, "item") THEN 1
               ELSE IF Found(u, "category") THEN 2 ELSE 0

\* normalize returns the empty string for want of a rule, else what its rules
\* make of the URL, one after the other.
normalize(u) == IF u.domain \in DOMAIN m_rules /\ m_rules[u.domain]["normalize"] # <<>>
                THEN "rewritten" ELSE ""

-----------------------------------------------------------------------------
TypeOK == /\ file \in Seq(Lines) /\ Len(file) <= MaxLines
          /\ slips \subseteq DOMAIN file
          /\ eof \in BOOLEAN
          /\ at \in Sections \cup {"outer", "tag", "done"}
          /\ domain \in Domains \cup {NoDomain}
          /\ \A d \in DOMAIN m_rules : /\ d \in Domains \cup {NoDomain}
                                       /\ DOMAIN m_rules[d] = Sections
                                       /\ \A s \in Sections : Len(m_rules[d][s]) <= MaxRules
          /\ ret \in {"none", "FR_OK", "FR_FALSE", "regex_error"}

InOrder == slips = {} /\ Complete(file)

(* A file in order is never refused, and when load_conf returns every      *)
(* domain of the file, with one block or several, has exactly the rules    *)
(* written for it, section by section and in their order; of the           *)
(* replacements only one of a single character behind a single blank is    *)
(* lost.                                                                   *)
ReadAsWritten ==
    InOrder /\ at = "done" =>
        /\ ret = "FR_OK"
        /\ DOMAIN m_rules = {file[i].domain : i \in {j \in DOMAIN file : file[j].kind = "domain"}}
        /\ \A d \in DOMAIN m_rules, s \in Sections :
              m_rules[d][s] =
                [n \in DOMAIN Written(file, d, s) |->
                    LET line == Written(file, d, s)[n]
                    IN  [line EXCEPT !.rep = IF s # "normalize" \/ <<line.gap, line.rep>> = <<1, 1>>
                                             THEN 0 ELSE @]]

(* With a file in order, an item is a URL that an <item> rule of its       *)
(* domain finds, a category one that only a <category> rule finds, and its *)
(* normal form is empty only if its domain has no <normalize> rule; and    *)
(* with an accepted file of any kind, a URL is taken for an item though    *)
(* none of the file's rules finds it only where a blank line or a header   *)
(* stands between an <item> and its <normalize>.                           *)
TypedAsWritten ==
    ret = "FR_OK" =>
        \A u \in Urls :
            LET Finds(s) == \E n \in DOMAIN Written(file, u.domain, s) :
                                Written(file, u.domain, s)[n].pattern \in u.matched
            IN  /\ InOrder => /\ get_type(u) = 1 <=> Finds("item")
                              /\ get_type(u) = 2 <=> Finds("category") /\ ~Finds("item")
                              /\ normalize(u) = "" <=>
                                    Written(file, u.domain, "normalize") = <<>>
                /\ get_type(u) = 1 /\ u.matched = {} =>
                      \E i \in DOMAIN file :
                          /\ file[i].kind \in {"blank", "domain"}
                          /\ LastBefore(file, i, {"item"}) > LastBefore(file, i, {"normalize"})

(* load_conf returns: for want of a <normalize> or a <category> alone it   *)
(* reads on for ever behind the end of the file.                           *)
LoadEnds == (eof /\ at \notin {"item", "normalize"}) ~> (at = "done")
=============================================================================
