----------------------------- MODULE SecurityCodes -----------------------------
(***************************************************************************)
(* The codes of securities: to which exchange a six-digit number belongs,  *)
(* of which class it is (protocol/unit.go), which codes a market of a pull *)
(* lists, and how the code that was written down, in a log, a file or a    *)
(* configuration, finds its market again (extend/pull/code.go).            *)
(*                                                                         *)
(* A number of six digits is known by its first three, 0 .. 999, but for   *)
(* 999999, which is AllNines.  Other codes are known by their shape.       *)
(***************************************************************************)
EXTENDS Naturals, FiniteSets

CONSTANTS
    Heads,          \* the first three digits looked at, and AllNines
    ExShapes        \* codes of the extended quotes: "five", "letters", ...

AllNines == 1000

ASSUME CodeConstants == Heads \subseteq 0 .. AllNines

Two(head) == IF head = AllNines THEN 99 ELSE head \div 10
One(head) == Two(head) \div 10

-----------------------------------------------------------------------------
\* The ranges of the exchanges.
SHStock(head) == One(head) = 6
SZStock(head) == One(head) = 0 \/ Two(head) = 30
BJStock(head) == Two(head) = 92
SHETF(head)   == Two(head) \in {50, 51, 52, 53, 56, 58}
SZETF(head)   == Two(head) \in {15, 16}
SHIndex(head) == head \in {0, AllNines}
SZIndex(head) == head = 399
BJIndex(head) == head = 899
Block(head)   == head \in {880, 881}
SHBond(head)  == head \in {110, 111, 113, 118}
SZBond(head)  == head \in {123, 125, 126, 127, 128}

IsStock(ex, head) ==
    \/ ex = "sh" /\ SHStock(head)
    \/ ex = "sz" /\ SZStock(head)
    \/ ex = "bj" /\ BJStock(head)

IsETF(ex, head) ==
    \/ ex = "sh" /\ SHETF(head)
    \/ ex = "sz" /\ SZETF(head)

IsBlock(ex, head) == ex = "sh" /\ Block(head)

IsIndex(ex, head) ==
    \/ ex = "sh" /\ SHIndex(head)
    \/ ex = "sz" /\ SZIndex(head)
    \/ ex = "bj" /\ BJIndex(head)
    \/ IsBlock(ex, head)

IsConvertibleBond(ex, head) ==
    \/ ex = "sh" /\ SHBond(head)
    \/ ex = "sz" /\ SZBond(head)

Unknown == "unknown"

\* Fault: the indexes are looked up before the stocks.
AddPrefixIndexFirst(head) ==
    CASE SHIndex(head) -> "sh"
      [] OTHER -> CASE SHStock(head) -> "sh" [] SZStock(head) -> "sz" [] BJStock(head) -> "bj"
                    [] SHETF(head) \/ Block(head) \/ SHBond(head) -> "sh"
                    [] SZETF(head) \/ SZIndex(head) \/ SZBond(head) -> "sz"
                    [] BJIndex(head) -> "bj"
                    [] OTHER -> Unknown

\* The exchange of a bare number: 000 is a stock of Shenzhen before it is an
\* index of Shanghai.
AddPrefix(head) ==
    CASE SHStock(head) -> "sh"
      [] SZStock(head) -> "sz"
      [] BJStock(head) -> "bj"
      [] SHETF(head)   -> "sh"
      [] SZETF(head)   -> "sz"
      [] SHIndex(head) /\ ~SZStock(head) -> "sh"
      [] SZIndex(head) -> "sz"
      [] BJIndex(head) -> "bj"
      [] Block(head)   -> "sh"
      [] SHBond(head)  -> "sh"
      [] SZBond(head)  -> "sz"
      [] OTHER         -> Unknown

\* classifyStd.
ClassOf(ex, head) ==
    CASE IsETF(ex, head)   -> "cn/etf"
      [] IsStock(ex, head) -> "cn/stock"
      [] IsBlock(ex, head) -> "cn/block"
      [] IsIndex(ex, head) /\ ~IsBlock(ex, head) -> "cn/index"
      [] OTHER             -> Unknown

-----------------------------------------------------------------------------
\* A pull.Code.  ex is the exchange inside the code: of the numbers, and of
\* the futures, which are written exchange/contract; "" elsewhere.
Std(market, ex, head) == [market |-> market, ex |-> ex, shape |-> "six", head |-> head]
Ext(market, ex, shape) == [market |-> market, ex |-> ex, shape |-> shape, head |-> 0]

NoCode == Ext(Unknown, "", "")

\* What the markets list (GetStocks, GetETFs, GetIndexes and the file of the
\* blocks).  The indexes of Shanghai include the blocks, so both markets
\* pull those.
StdList ==
    LET numbers == {"sh", "sz", "bj"} \X Heads
        Of(market, listed) == {Std(market, q[1], q[2]) : q \in listed}
    IN Of("cn/stock", {q \in numbers : IsStock(q[1], q[2])})
         \cup Of("cn/etf", {q \in numbers : IsETF(q[1], q[2])})
         \cup Of("cn/index", {q \in numbers : IsIndex(q[1], q[2])})
         \cup {Std("cn/block", AddPrefix(h), h) : h \in {k \in Heads : Block(k)}}

\* The names of HK indexes that are looked for: of letters only, as HSI, or
\* not, as CES100.
hkIndexCodes == {"HSI", "CES100"}
AllLetter == {"letters", "HSI"}

\* A US ticker may be spelled as one of them, as GEM is.
ExtList ==
    LET Of(market, ex, shapes) == {Ext(market, ex, s) : s \in shapes \cap ExShapes}
    IN Of("hk/stock", "", {"five"}) \cup Of("hk/index", "", hkIndexCodes \cup {"mixed", "letters"})
         \cup Of("us/stock", "", AllLetter \cup {"dotted"}) \cup Of("cn/future", "cff", {"contract"})

\* A code as it is written: the number or name, what stands before it, and
\* of which exchange or market.
AsWritten(before, name, code) == [before |-> before, name |-> name, shape |-> code.shape, head |-> code.head]

\* Code.Key.
Key(code) ==
    CASE code.shape = "six"       -> AsWritten("exchange", code.ex, code)
      [] code.market = "hk/stock" -> AsWritten("HK", "", code)
      [] code.market = "us/stock" -> AsWritten("US.", "", code)
      [] OTHER                    -> AsWritten("market.", code.market, code)

\* Without what Key adds.
Bare(code) == AsWritten(IF code.shape = "contract" THEN "exchange/" ELSE "", "", code)

FullKey(code) == AsWritten("market.", code.market, code)

\* The exchange inside a code whose market is told.
Inside(text, code) == [market |-> code.market, ex |-> code.ex, shape |-> text.shape, head |-> text.head]

SplitKey(text, ex) ==
    CASE text.before = "US."     -> Inside(text, Ext("us/stock", ex, ""))
      [] text.before = "HK"      -> Inside(text, Ext("hk/stock", ex, ""))
      [] text.before = "market." -> Inside(text, Ext(text.name, ex, ""))
      [] OTHER                   -> NoCode

\* A number is of the class its exchange gives it, or not a code.
Classified(ex, head) == IF ClassOf(ex, head) = Unknown THEN NoCode ELSE Std(ClassOf(ex, head), ex, head)

\* A bare number without an exchange, or without a class on it, is not a code,
\* but an index of Beijing if it starts with 89.
Prefixed(head) ==
    IF ClassOf(AddPrefix(head), head) = Unknown /\ Two(head) = 89 THEN Std("cn/index", "bj", head)
    ELSE Classified(AddPrefix(head), head)

\* ParseCode; ex is the exchange the text spells after its market.  The dot
\* of a bare name like BRK.B makes BRK its market, and a name is looked for
\* among the HK indexes before its letters make it a US ticker.
ParseCode(text, ex) ==
    CASE text.before \in {"market.", "US."}              -> SplitKey(text, ex)
      [] text.before = "" /\ text.shape = "dotted"       -> Ext("dot", "", "letters")
      [] text.before = "exchange/"                       -> Ext("cn/future", ex, text.shape)
      [] text.before = "exchange"                        -> Classified(text.name, text.head)
      [] text.before = "" /\ text.shape = "six"          -> Prefixed(text.head)
      [] text.before \in {"HK", ""} /\ text.shape = "five" -> Ext("hk/stock", "", "five")
      [] text.before = "" /\ text.shape \in hkIndexCodes -> Ext("hk/index", "", text.shape)
      [] text.before = "" /\ text.shape \in AllLetter \ hkIndexCodes -> Ext("us/stock", "", text.shape)
      [] OTHER                                           -> NoCode

\* DecodeCode, by which every request to the servers finds its exchange:
\* prefix or suffix, a bare number, five digits, letters.
Decode(text) ==
    CASE text.before \in {"exchange", "suffix"}          -> text.name
      [] text.before = "" /\ text.shape = "six"          -> AddPrefix(text.head)
      [] text.before = "" /\ text.shape = "five"         -> "hk"
      [] text.before = "" /\ text.shape \in AllLetter \cup {"dotted"} -> "us"
      [] OTHER                                           -> Unknown

-----------------------------------------------------------------------------
VARIABLES
    noted,      \* the code that was written down, and how
    routed,     \* what ParseCode makes of it
    askedOf     \* the exchange DecodeCode asks for it

codeVars == <<noted, routed, askedOf>>

CodesInit ==
    /\ noted = [code |-> NoCode, form |-> "key"]
    /\ routed = NoCode
    /\ askedOf = Unknown

WriteDown(code, form) ==
    LET text == CASE form = "key"  -> Key(code)
                  [] form = "full" -> FullKey(code)
                  [] OTHER         -> Bare(code)
    IN /\ noted' = [code |-> code, form |-> form]
       /\ routed'  = ParseCode(text, code.ex)
       /\ askedOf'   = IF code.shape = "six" /\ form # "full" THEN Decode(text) ELSE Unknown

CodesNext ==
    /\ noted.code = NoCode
    /\ \E code \in StdList \cup ExtList, form \in {"key", "full", "bare"} : WriteDown(code, form)

CodesSpec == CodesInit /\ [][CodesNext]_codeVars

-----------------------------------------------------------------------------
\* 000 in Shanghai is the one number two exchanges share; HK indexes that are
\* not looked for, US tickers spelled as one that is, and names with a dot need
\* their market.
Ambiguous(code) ==
    \/ code.ex = "sh" /\ code.head = 0 /\ code.shape = "six"
    \/ code.market = "hk/index" /\ code.shape \notin hkIndexCodes
    \/ code.market = "us/stock" /\ code.shape \in hkIndexCodes
    \/ code.shape = "dotted"

\* "Key ... the complete prefix" and "ParseCode routes it automatically": a
\* code that any market lists is found again by its key and its full key, and
\* by its bare form where that says enough, and a request for it goes to its
\* own exchange.  The blocks the index market lists come back as blocks.
CodesRoute ==
    LET c == noted.code
        Home(code) == IF IsBlock(code.ex, code.head) /\ noted.form # "full"
                      THEN [code EXCEPT !.market = "cn/block"] ELSE code
    IN c # NoCode =>
         /\ noted.form \in {"key", "full"} => routed = Home(c)
         /\ noted.form = "bare" /\ ~Ambiguous(c) => routed = Home(c)
         /\ askedOf # Unknown /\ ~(noted.form = "bare" /\ Ambiguous(c)) => askedOf = c.ex
         /\ c.shape = "six" => Cardinality({m \in {"cn/stock", "cn/etf", "cn/index"} :
                                              Std(m, c.ex, c.head) \in StdList}) = 1
=============================================================================
