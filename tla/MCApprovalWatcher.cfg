\* One question, asked by any surface, swept by the scheduler and by the
\* console's watcher, which announces it and says how it ended.
SPECIFICATION FairWatcherSpec
CONSTANTS
    Question = {q1}
    Kind = {"broker", "telegram", "console"}
    Sweeper = {scheduler, watcher}
    Watcher = watcher
    Nobody = nobody
    MaxFailures = 1
INVARIANTS
    YesIsOnRecord
    
    OnlyOverdueQuestionsTimeOut
    NotesStayTrue
PROPERTIES
    FirstAnswerStands
    EveryQuestionIsClosed
    
CHECK_DEADLOCK FALSE
