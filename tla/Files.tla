-------------------------------- MODULE Files --------------------------------
(***************************************************************************)
(* The files: what the writers make of a text and of a key, and what the   *)
(* readers, which share no code with them, make of that.                   *)
(*                                                                         *)
(* A text is a sequence of characters.  What the formats only ever treat   *)
(* as one is one character here: four hexadecimal digits ("0001"), the     *)
(* name of an entity with its semicolon ("lt;"), "![CDATA[".  "ctl" stands *)
(* for a control character but tab, line feed and carriage return, "LS"    *)
(* for the separators U+2028 and U+2029, "@" for @ and ?.                  *)
(***************************************************************************)
EXTENDS Naturals, Sequences, SequencesExt, FiniteSets

\* What four hexadecimal digits encode.  Surrogates are left out.
Digits == {"0001", "2028"}
Coded(digits) == IF digits = "0001" THEN "ctl" ELSE "LS"

\* Stands where a reader refuses the file.
Refused == "refused"

\* The letter that follows the backslash for a character, and what it means.
Letter(c) == CASE c = "\n" -> "n" [] c = "\t" -> "t" [] c = "\r" -> "r" [] OTHER -> c
Meant(l) == CASE l = "n" -> "\n" [] l = "t" -> "\t" [] l = "r" -> "\r" [] OTHER -> l

\* s stands at i in t.
At(t, i, s) == i + Len(s) <= Len(t) + 1 /\ SubSeq(t, i, i + Len(s) - 1) = s
Holds(t, s) == \E i \in DOMAIN t : At(t, i, s)

\* One pass from left to right that takes an escape at a time: a backslash and a
\* letter, or a backslash, a marker and four digits.  Another backslash is odd.
Unescaped(t, reader) ==
    LET from[i \in 1 .. Len(t) + 1] ==
            IF i > Len(t) THEN <<>>
            ELSE IF t[i] # "\\"
            THEN <<IF t[i] \in reader.refused THEN Refused ELSE t[i]>> \o from[i + 1]
            ELSE IF i < Len(t) /\ t[i + 1] \in reader.letters
            THEN <<Meant(t[i + 1])>> \o from[i + 2]
            ELSE IF i + 1 < Len(t) /\ t[i + 1] \in reader.markers /\ t[i + 2] \in Digits
            THEN <<Coded(t[i + 2])>> \o from[i + 3]
            ELSE <<IF i = Len(t) THEN reader.last ELSE reader.odd>> \o from[i + 1]
    IN from[1]
-----------------------------------------------------------------------------
(* Flutter: JSON.                                                          *)

JSONImage(c) ==
    IF c \in {"\n", "\t", "\r", "\\", "\"", "/"} THEN <<"\\", Letter(c)>>
    ELSE IF c = "ctl" THEN <<"\\", "u", "0001">>
    ELSE IF c = "LS" THEN <<"\\", "u", "2028">>
    ELSE <<c>>

WriteJSON(t) == FlattenSeq([i \in DOMAIN t |-> JSONImage(t[i])])

\* encoding/json.
JSONReader ==
    [letters |-> {"n", "t", "r", "\\", "\"", "/"}, markers |-> {"u"},
     refused |-> {"\"", "\n", "\r", "\t", "ctl"}, odd |-> Refused, last |-> Refused]

ReadJSON(t) == Unescaped(t, JSONReader)
-----------------------------------------------------------------------------
(* iOS: .strings.                                                          *)

StringsImage(c) ==
    IF c \in {"\n", "\t", "\r", "\\", "\""} THEN <<"\\", Letter(c)>>
    ELSE IF c = "ctl" THEN <<"\\", "U", "0001">>
    ELSE <<c>>

WriteStrings(t) == FlattenSeq([i \in DOMAIN t |-> StringsImage(t[i])])

\* A bare quote ends the string too early, and a backslash at its end hides the
\* quote that should end it.
StringsReader ==
    [letters |-> {"n", "t", "r", "\\", "\""}, markers |-> {"u", "U"},
     refused |-> {"\""}, odd |-> "\\", last |-> Refused]

ReadStrings(t) == Unescaped(t, StringsReader)
-----------------------------------------------------------------------------
(* Android: XML around escapes of its own, plain or as CDATA.              *)

CDataOpen == <<"<", "![CDATA[">>
CDataClose == <<"]", "]", ">">>

\* \u and four digits stay, because Android itself resolves them.  An @ at the
\* start would be a reference to a resource.
Stays(t, i) ==
    \/ t[i] = "\\" /\ i + 1 < Len(t) /\ t[i + 1] = "u" /\ t[i + 2] \in Digits
    \/ t[i] = "@" /\ i # 1

AndroidImage(t, i) ==
    IF t[i] \in {"\n", "\t", "\\", "\"", "'", "@"} /\ ~Stays(t, i)
    THEN <<"\\", Letter(t[i])>>
    ELSE <<t[i]>>

EscapeAndroid(t) == FlattenSeq([i \in DOMAIN t |-> AndroidImage(t, i)])

AndroidReader ==
    [letters |-> {"n", "t", "\\", "\"", "'", "@"}, markers |-> {},
     refused |-> {}, odd |-> "\\", last |-> "\\"]

UnescapeAndroid(t) == Unescaped(t, AndroidReader)

\* strings.ReplaceAll.
Replaced(t, old, new) ==
    LET from[i \in 1 .. Len(t) + 1] ==
            IF i > Len(t) THEN <<>>
            ELSE IF At(t, i, old) THEN new \o from[i + Len(old)]
            ELSE <<t[i]>> \o from[i + 1]
    IN from[1]

\* & comes first.
EscapeXML(t) ==
    LET ampersands == Replaced(t, <<"&">>, <<"&", "amp;">>)
        openings == Replaced(ampersands, <<"<">>, <<"&", "lt;">>)
    IN Replaced(openings, <<">">>, <<"&", "gt;">>)

Ampersands(t) == Replaced(t, <<"&", "amp;">>, <<"&">>)
OtherEntities(t) ==
    LET openings == Replaced(t, <<"&", "lt;">>, <<"<">>)
        closings == Replaced(openings, <<"&", "gt;">>, <<">">>)
    IN Replaced(closings, <<"&", "#39;">>, <<"'">>)

\* & comes last.
AmpersandFirst(t) == OtherEntities(Ampersands(t))
UnescapeXML(t) == Ampersands(OtherEntities(t))

\* <b>, <u> and what ends them are part of the copy and stay.
Openings == {<<"<", n, ">">> : n \in {"b", "u"}}
Closing(opening) == <<"<", "/", opening[2], ">">>
InlineMarkup == Openings \cup {Closing(o) : o \in Openings}

\* The positions of what stays.
Raw(t) == {j \in DOMAIN t : \E i \in 1 .. j, mark \in InlineMarkup : At(t, i, mark) /\ j < i + Len(mark)}

PlainImage(t, i) == IF i \in Raw(t) THEN <<t[i]>> ELSE EscapeXML(<<t[i]>>)

WritePlain(t) ==
    LET escaped == EscapeAndroid(t)
    IN FlattenSeq([i \in DOMAIN escaped |-> PlainImage(escaped, i)])

WriteCData(t) == CDataOpen \o EscapeAndroid(t) \o CDataClose

\* encoding/xml: no control characters, and every element is closed.
MarksAt(t, i) ==
    LET met == {mark \in InlineMarkup : At(t, i, mark)}
    IN IF met = {} THEN <<>> ELSE <<CHOOSE mark \in met : TRUE>>

Closed(marks) ==
    LET Met(open, mark) ==
            IF open # <<>> /\ mark = Closing(Head(open)) THEN Tail(open) ELSE <<mark>> \o open
    IN FoldLeft(Met, <<>>, marks) = <<>>

Balanced(t) == Closed(FlattenSeq([i \in DOMAIN t |-> MarksAt(t, i)]))

ReadXML(t) ==
    LET cdata == IsPrefix(CDataOpen, t)
        text == IF cdata THEN SubSeq(t, 3, Len(t) - 3) ELSE t
    IN IF \/ Holds(text, <<"ctl">>) \/ Holds(text, CDataOpen) \/ Holds(text, CDataClose)
          \/ ~cdata /\ ~Balanced(t)
       THEN <<Refused>>
       ELSE UnescapeAndroid(IF cdata THEN text ELSE UnescapeXML(text))
-----------------------------------------------------------------------------
(* The names of Android resources.  A key is a sequence of characters too:  *)
(* "1" stands for a digit, "a" for a letter, "-" for what is neither.       *)

AndroidName(key) ==
    LET digits == {i \in DOMAIN key : \A j \in 1 .. i : key[j] = "1"}
    IN ReplaceAll(SubSeq(key, Cardinality(digits) + 1, Len(key)), "-", "_")

\* One key after another; what a name stands for is the last key that has it.
CheckAndroidNames(keys) ==
    \A i \in DOMAIN keys :
        LET name == AndroidName(keys[i])
            earlier == {j \in 1 .. i - 1 : AndroidName(keys[j]) = name}
        IN name # <<>> /\ (earlier # {} => keys[Max(earlier)] = keys[i])

\* render: what an Android file that the check lets pass is named like.
Rendered(keys) == {AndroidName(k) : k \in keys}

\* The keys of the Flutter files that a seed takes for keys of iOS, given the keys
\* in the iOS files, and for keys of Android, given the names in the Android files.
IOSMembers(flutter, keys) == flutter \cap keys
AndroidMembers(flutter, names) == {k \in flutter : AndroidName(k) \in names}
-----------------------------------------------------------------------------
(* What the properties of Import say of files, over texts and keys that put  *)
(* what the formats treat specially next to each other.                     *)

Fragments ==
    {<<c>> : c \in {"\\", "\"", "'", "/", "\n", "\r", "ctl", "LS", "@", "&", "<", "lt;", "amp;", "n", "]"}}
    \cup {<<"<", "b", ">">>, <<"<", "/", "b", ">">>, <<"u", "2028">>, CDataOpen, CDataClose}

SomeTexts == {t \o u \o v : t, u, v \in Fragments \cup {<<>>}}
SomeKeys == BoundedSeq({"1", "a", "-", "_"}, 2) \ {<<>>}

ReadBack(t) ==
    /\ ReadJSON(WriteJSON(t)) = t
    /\ ReadStrings(WriteStrings(t)) = t
    /\ ReadXML(WritePlain(t)) = IF "ctl" \in Range(t) \/ ~Balanced(t) THEN <<Refused>> ELSE t
    /\ ReadXML(WriteCData(t)) =
           IF "ctl" \in Range(t) \/ Holds(t, CDataOpen) \/ Holds(t, CDataClose)
           THEN <<Refused>> ELSE t

TextsReadBack == \A t \in SomeTexts : ReadBack(t)

Distinct(keys) ==
    Cardinality(Rendered(keys) \ {<<>>}) = Cardinality(keys)

Recovered(flutter, android) ==
    LET found == AndroidMembers(flutter, Rendered(android))
    IN Distinct(android) =>
           /\ flutter \cap android \subseteq found
           /\ Distinct(android \cup found) <=> found \subseteq android

KeysRecovered ==
    \A k, l, m \in SomeKeys :
        /\ CheckAndroidNames(<<k, l, m>>) <=> Distinct({k, l, m})
        /\ \A flutter \in {{k}, {l, m}, {k, l}} : Recovered(flutter, {k, m})
=============================================================================
