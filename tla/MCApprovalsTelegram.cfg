\* A question asked on Telegram, answered there and on the web at once.
SPECIFICATION Spec
CONSTANTS
    Question = {q1}
    Kind = {"telegram"}
    Sweeper = {scheduler}
    Nobody = nobody
    MaxFailures = 0
INVARIANT TelegramYesIsOnRecord
CHECK_DEADLOCK FALSE
