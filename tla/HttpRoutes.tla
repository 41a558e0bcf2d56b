------------------------------ MODULE HttpRoutes ------------------------------
(***************************************************************************)
(* The routes of the HTTP service (extend/httpserver): what a handler asks *)
(* of its query, in the order it asks, and how it works afterwards.        *)
(*                                                                         *)
(* A parameter is Text (not empty), Exchange (sh, sz or bj) or a number of *)
(* 8, 16 or 32 bits.  A handler works by Call: one call on a client of the *)
(* pool; Adjust: the adjusted daily bars; Daily: Call, or Adjust when the  *)
(* query asks for an adjustment; Batch: the share changes of many codes.   *)
(***************************************************************************)
EXTENDS Sequences

Text     == "text"
Exchange == "exchange"
Uint8    == "uint8"
Uint16   == "uint16"
Uint32   == "uint32"

ByCode     == <<Text>>
ByPage     == <<Text, Uint16, Uint16>>
ByExchange == <<Exchange>>

Calls(params) == [work |-> "call", params |-> params]

CodeRoutes ==
    [count |-> Calls(ByExchange), code |-> Calls(<<Exchange, Uint16>>),
     codeAll |-> Calls(ByExchange), stocks |-> Calls(<<>>), etfs |-> Calls(<<>>),
     indexes |-> Calls(<<>>)]

QuoteRoutes ==
    [quote |-> Calls(<<Text>>), callAuction |-> Calls(ByCode), gbbq |-> Calls(ByCode),
     gbbqAll |-> [work |-> "batch", params |-> <<>>]]

CompanyRoutes ==
    [finance  |-> Calls(<<Exchange, Text>>),
     category |-> Calls(<<Exchange, Text>>),
     content  |-> Calls(<<Exchange, Text, Text, Uint32, Uint32>>)]

TradeRoutes ==
    [minute |-> Calls(ByCode), minuteHistory |-> Calls(<<Text, Text>>),
     trade |-> Calls(ByPage), tradeAll |-> Calls(ByCode),
     tradeHistory |-> Calls(<<Text, Text, Uint16, Uint16>>),
     tradeHistoryDay |-> Calls(<<Text, Text>>)]

TypedKlineRoutes ==
    [kline |-> Calls(<<Uint8, Text, Uint16, Uint16>>), klineAll |-> Calls(<<Uint8, Text>>)]

MinuteKlineRoutes ==
    [kline1 |-> Calls(ByPage), kline1All |-> Calls(ByCode),
     kline5 |-> Calls(ByPage), kline5All |-> Calls(ByCode)]

MinutesKlineRoutes ==
    [kline15 |-> Calls(ByPage), kline15All |-> Calls(ByCode),
     kline30 |-> Calls(ByPage), kline30All |-> Calls(ByCode),
     kline60 |-> Calls(ByPage), kline60All |-> Calls(ByCode)]

DayKlineRoutes ==
    [day    |-> [work |-> "daily", params |-> ByPage],
     dayAll |-> [work |-> "daily", params |-> ByCode]]

LongKlineRoutes ==
    [week |-> Calls(ByPage), weekAll |-> Calls(ByCode),
     month |-> Calls(ByPage), monthAll |-> Calls(ByCode)]

LongerKlineRoutes ==
    [quarter |-> Calls(ByPage), quarterAll |-> Calls(ByCode),
     year |-> Calls(ByPage), yearAll |-> Calls(ByCode)]

AdjustedRoutes ==
    [dayQfq |-> [work |-> "adjust", params |-> ByPage],
     dayHfq |-> [work |-> "adjust", params |-> ByPage],
     dayQfqAll |-> [work |-> "adjust", params |-> ByCode],
     dayHfqAll |-> [work |-> "adjust", params |-> ByCode],
     factors |-> [work |-> "adjust", params |-> ByCode]]

TypedIndexRoutes ==
    [index |-> Calls(<<Uint8, Text, Uint16, Uint16>>), indexAll |-> Calls(<<Uint8, Text>>)]

MinuteIndexRoutes ==
    [index1 |-> Calls(ByPage), index5 |-> Calls(ByPage), index15 |-> Calls(ByPage),
     index30 |-> Calls(ByPage), index60 |-> Calls(ByPage)]

LongIndexRoutes ==
    [indexDay |-> Calls(ByPage), indexDayAll |-> Calls(ByCode),
     indexWeekAll |-> Calls(ByCode), indexMonthAll |-> Calls(ByCode),
     indexQuarterAll |-> Calls(ByCode), indexYearAll |-> Calls(ByCode)]

FileRoutes ==
    [blockData |-> Calls(<<Text>>), blockIndex |-> Calls(<<Text>>),
     blockFile |-> Calls(<<Text>>), reportFile |-> Calls(<<Text>>), zhbFiles |-> Calls(<<>>)]

ConfigRoutes ==
    [zs |-> Calls(<<>>), bk |-> Calls(<<>>), stat |-> Calls(<<>>), stat2 |-> Calls(<<>>),
     xgsg |-> Calls(<<>>), hy |-> Calls(<<>>), spblock |-> Calls(<<>>)]

ExListRoutes ==
    [exMarkets |-> Calls(<<>>), exCount |-> Calls(<<>>),
     exInstruments |-> Calls(<<Uint32, Uint16>>), exQuote |-> Calls(<<Uint8, Text>>),
     exQuoteList |-> Calls(<<Uint8, Uint8, Uint16, Uint16>>)]

ExBarRoutes ==
    [exBars |-> Calls(<<Uint8, Uint8, Text, Uint16, Uint16>>),
     exMinute |-> Calls(<<Uint8, Text>>), exMinuteHist |-> Calls(<<Uint8, Text, Uint32>>)]

ExTradeRoutes ==
    [exTrade |-> Calls(<<Uint8, Text, Uint16, Uint16>>),
     exTradeHist |-> Calls(<<Uint8, Text, Uint32, Uint16, Uint16>>),
     exBarsRange |-> Calls(<<Uint8, Text, Uint32, Uint32>>)]

Shapes(routes) == {routes[r] : r \in DOMAIN routes}

\* The handlers that borrow from the pool of quote servers, and those that
\* borrow from the pool of extended quote servers.
StdHandlers ==
    UNION {Shapes(CodeRoutes), Shapes(QuoteRoutes), Shapes(CompanyRoutes),
           Shapes(TradeRoutes), Shapes(TypedKlineRoutes), Shapes(MinuteKlineRoutes),
           Shapes(MinutesKlineRoutes), Shapes(DayKlineRoutes), Shapes(LongKlineRoutes),
           Shapes(LongerKlineRoutes), Shapes(AdjustedRoutes), Shapes(TypedIndexRoutes),
           Shapes(MinuteIndexRoutes), Shapes(LongIndexRoutes), Shapes(FileRoutes),
           Shapes(ConfigRoutes)}

ExHandlers == UNION {Shapes(ExListRoutes), Shapes(ExBarRoutes), Shapes(ExTradeRoutes)}
=============================================================================
