SPECIFICATION DocSpec
CONSTANTS
    Reports <- MCReports
    Receipts <- MCReceipts
CHECK_DEADLOCK FALSE
INVARIANTS RowsReadUnderTheirHeader ShortTablesAreWhole ReceiptFits
